---- MODULE Spec2Model ----
(***************************************************************************)
(* klab: dynamic SCPI command construction and method dispatch.            *)
(*                                                                         *)
(* Two instrument classes of the repository are modelled side by side:     *)
(*   cls = "ScpiInstrument"  klab/instruments/scpi_instrument.py           *)
(*   cls = "SCPIInstrument"  klab/instrument.py                            *)
(* Python text (str) is a sequence of one-character strings, so that       *)
(* upper(), join, strip, split and format are computed, not assumed.       *)
(*                                                                         *)
(* Five specifications share the variables and the operators:              *)
(*   SpecProxy  clients that build commands with proxies                   *)
(*   Spec       attribute dispatch, method callers, reloads                *)
(*   SpecExec   direct runs of the declarative executor                    *)
(*   SpecLoad   construction and loading of the specification file         *)
(*   SpecConn   connect, disconnect and the traffic to the backend          *)
(***************************************************************************)
EXTENDS Integers, Sequences, FiniteSets, TLC

VARIABLES
    cls,      \* class of the instrument object under test
    visa,     \* self._visa_instrument is set (truthy)
    spec,     \* self.spec, the loaded specification document
    lists,    \* heap of Python list objects used as _command_parts (SCPIInstrument)
    objs,     \* heap of objects handed out by attribute access (proxies, method callers)
    op,       \* the most recent top-level operation of the client and its inputs
    calls,    \* instrument operations invoked by the most recent top-level call
    last,     \* outcome of the most recent top-level operation
    nested,   \* nested method invocations made by the most recent top-level call
    files,    \* the file system: the document stored at each candidate location
    required, \* names the instrument's class declares with @yaml_method
    alive,    \* the constructor has returned an instrument object to the client
    loaded,   \* the location the specification was last read from ("" when none)
    backend,  \* self._comm_backend: its class and the handles it holds
    inst,     \* the instrument's own _visa_instrument, _rm and _debug_stream
    pyvisa,   \* the resources opened so far
    environ,  \* the value of KLAB_DEBUG_STREAM in the process environment
    trace,    \* the lines the most recent operation wrote to the debug stream
    twin      \* what the most recent operation does on an instrument built with the other toggle

\* the variables of the connection scenarios
wire == <<backend, inst, pyvisa, environ, trace, twin>>

\* the variables of the construction scenarios
world == <<files, required, alive, loaded, wire>>

vars == <<cls, visa, spec, lists, objs, op, calls, last, nested, files, required, alive, loaded,
          backend, inst, pyvisa, environ, trace, twin>>

----------------------------------------------------------------------------
(* Bounds of the model *)

\* number of objects the client keeps alive at once
MaxObjs == 3

\* handles the client keeps at once in the dispatch and executor scenarios
MaxHeld == 2

\* depth of nested declarative calls at which Python raises RecursionError
MaxRecursion == 2

----------------------------------------------------------------------------
(* Text helpers *)

RECURSIVE Str(_)
\* a character sequence as a TLA+ string (for readable expected values)
Str(s) == IF s = <<>> THEN "" ELSE Head(s) \o Str(Tail(s))

\* str.upper() on one character
UpperChar(c) ==
    CASE c = "a" -> "A" [] c = "b" -> "B" [] c = "c" -> "C" [] c = "d" -> "D"
      [] c = "e" -> "E" [] c = "f" -> "F" [] c = "o" -> "O" [] c = "r" -> "R"
      [] c = "s" -> "S" [] c = "t" -> "T" [] c = "x" -> "X" [] c = "z" -> "Z"
      [] OTHER -> c

\* str.upper()
Upper(s) == [i \in 1..Len(s) |-> UpperChar(s[i])]

RECURSIVE Join(_, _)
\* sep.join(parts)
Join(sep, parts) ==
    IF parts = <<>> THEN <<>>
    ELSE IF Len(parts) = 1 THEN parts[1]
    ELSE parts[1] \o sep \o Join(sep, Tail(parts))

IsSpace(c) == c \in {" ", "\n", "\t"}

RECURSIVE LStrip(_)
LStrip(s) == IF s # <<>> /\ IsSpace(Head(s)) THEN LStrip(Tail(s)) ELSE s

RECURSIVE RStrip(_)
RStrip(s) ==
    IF s # <<>> /\ IsSpace(s[Len(s)]) THEN RStrip(SubSeq(s, 1, Len(s) - 1)) ELSE s

\* str.strip()
Strip(s) == RStrip(LStrip(s))

\* str.endswith(c) for a one-character suffix
EndsWith(s, c) == s # <<>> /\ s[Len(s)] = c

\* c in s
Contains(s, c) == \E i \in 1..Len(s) : s[i] = c

----------------------------------------------------------------------------
(* Values returned or raised by an operation *)

None == [kind |-> "None", val |-> <<>>, items |-> <<>>, obj |-> 0, exc |-> ""]
StrVal(s) == [None EXCEPT !.kind = "str", !.val = s]
ListVal(xs) == [None EXCEPT !.kind = "list", !.items = xs]
ObjVal(i) == [None EXCEPT !.kind = "obj", !.obj = i]
Raise(e) == [None EXCEPT !.kind = "raise", !.exc = e]

IsRaise(v) == v.kind = "raise"

\* one instrument operation invoked with a command
Call(operation, cmd) == [op |-> operation, cmd |-> cmd]

\* result of running a piece of client-visible code: operations invoked, value
Outcome(cs, ret) == [calls |-> cs, ret |-> ret]

\* one invocation method_to_call(**kwargs_to_pass) made for a nested call
Invoke(name, kw) == [op |-> "invoke", cmd |-> name, kw |-> kw]

\* the instrument operations, and the nested invocations, of a run, in order
Commands(cs) == SelectSeq(cs, LAMBDA c : c.op # "invoke")
Invocations(cs) == SelectSeq(cs, LAMBDA c : c.op = "invoke")

----------------------------------------------------------------------------
(* Call arguments *)

\* the module-level force-query marker object q; its text is the default
\* object repr that str(q) gives (the address in it is abstracted)
QMarker == [kind |-> "q", text |-> <<"<", "_", "Q", "u", "e", "r", "y", "M", "a", "r", "k", "e", "r", ">">>]
Num(t) == [kind |-> "num", text |-> t]
PlainStr(t) == [kind |-> "str", text |-> t]
NoQuote(t) == [kind |-> "NoQuote", text |-> t]

\* str(arg): a number's default text, a str itself, NoQuote.__str__, or the
\* default object repr of the marker
PyStr(arg) == arg.text

----------------------------------------------------------------------------
(* Inputs *)

\* a name as typed by the client
N_a == <<"a">>
N_b == <<"b">>
N_c == <<"c">>
N_foo == <<"f", "o", "o">>
N_reset == <<"r", "e", "s", "e", "t">>

\* names accessed on the instrument, and on a proxy
InstrNames == {N_foo, N_reset}
ProxyNames == {N_b, N_c}

\* keys used in indexed access p[k], as str(k)
IndexKeys == {<<"2">>}

T_5 == <<"5">>
T_X == <<"X">>
T_V == <<"V">>

\* positional argument tuples of a proxy call
ArgLists ==
    { <<>>,
      <<Num(T_5)>>,
      <<NoQuote(T_V), PlainStr(T_X), Num(T_5)>>,
      <<QMarker>>,
      <<QMarker, PlainStr(T_X)>>,
      <<QMarker, NoQuote(T_V), Num(T_5)>> }

\* what the transport does with one command: it answers with resp, or it fails
\* (for a query of ScpiInstrument: on every attempt)
TransportOutcomes ==
    { [ok |-> TRUE, resp |-> <<"r", "1", "\n">>],
      [ok |-> FALSE, resp |-> <<>>] }

----------------------------------------------------------------------------
(* Instrument operations *)

\* name of the class's query operation
QueryOp(c) == IF c = "SCPIInstrument" THEN "ask" ELSE "query"

\* KlabInstrument.write of either class: the value it returns
InstrWrite(c, v, env) ==
    IF c = "SCPIInstrument"
    THEN IF ~v THEN None
         ELSE IF env.ok THEN None ELSE Raise("VisaIOError")
    ELSE None

\* SCPIInstrument.ask / ScpiInstrument.query: the value it returns
InstrQuery(c, v, env) ==
    IF c = "SCPIInstrument"
    THEN IF ~v THEN StrVal(<<>>)
         ELSE IF env.ok THEN StrVal(env.resp) ELSE Raise("VisaIOError")
    ELSE IF ~v THEN None
         ELSE IF env.ok THEN StrVal(Strip(env.resp)) ELSE Raise("ConnectionError")

----------------------------------------------------------------------------
(* SCPICommandProxy *)

\* an object handed to the client; chain and seen are history fields: the
\* accesses that produced the object and the specification loaded at that time
NoSeen == [kind |-> "dict", hasMethods |-> FALSE, methods |-> <<>>]
Proxy(ref, prefix, chain) ==
    [type |-> "proxy", ref |-> ref, prefix |-> prefix, name |-> <<>>,
     chain |-> chain, seen |-> NoSeen]
Caller(name, seen) ==
    [type |-> "caller", ref |-> 0, prefix |-> <<>>, name |-> name,
     chain |-> <<>>, seen |-> seen]
Bound(name) ==
    [type |-> "static", ref |-> 0, prefix |-> <<>>, name |-> name,
     chain |-> <<>>, seen |-> NoSeen]

Attr(n) == [step |-> "attr", key |-> n]
Item(k) == [step |-> "item", key |-> k]

\* a __getattr__ that appends to the list it holds instead of building a new one
GetattrPartsInPlace(ls, ref, name) ==
    [lists |-> [ls EXCEPT ![ref] = Append(@, Upper(name))], ref |-> ref]

\* SCPICommandProxy.__getattr__ of klab/instrument.py: the list heap after the
\* access and the list the new proxy refers to
LegacyGetattrParts(ls, ref, name) ==
    [lists |-> Append(ls, ls[ref] \o <<Upper(name)>>), ref |-> Len(ls) + 1]

\* SCPICommandProxy.__getitem__ of klab/instrument.py (non-empty path)
LegacyGetitemParts(ls, ref, key) ==
    LET parts == ls[ref]
        last_part == parts[Len(parts)] \o key
    IN  [lists |-> Append(ls, SubSeq(parts, 1, Len(parts) - 1) \o <<last_part>>),
         ref |-> Len(ls) + 1]

\* SCPICommandProxy.__getattr__ of klab/instruments/scpi_instrument.py
NewPrefix(prefix, name) ==
    IF prefix # <<>> THEN prefix \o <<":">> \o name ELSE name

\* the command text a proxy stands for
CommandStr(c, ls, o) ==
    IF c = "SCPIInstrument" THEN Join(<<":">>, ls[o.ref]) ELSE o.prefix

\* formatting of one argument in klab/instrument.py
LegacyFormatArg(arg) ==
    IF arg.kind = "NoQuote" THEN PyStr(arg)
    ELSE IF arg.kind = "str" THEN <<"'">> \o arg.text \o <<"'">>
    ELSE PyStr(arg)

LegacyArgsStr(args) ==
    Join(<<",">>, [i \in 1..Len(args) |-> LegacyFormatArg(args[i])])

\* ", ".join(str(arg) for arg in args) of klab/instruments/scpi_instrument.py
ParamsStr(args) ==
    Join(<<",", " ">>, [i \in 1..Len(args) |-> PyStr(args[i])])

\* SCPICommandProxy.__call__ of klab/instrument.py
LegacyProxyCall(v, command_str, args, env) ==
    IF args # <<>> /\ args[1] = QMarker
    THEN LET query_args == Tail(args)
             cmd == IF query_args # <<>>
                    THEN command_str \o <<"?">> \o <<" ">> \o LegacyArgsStr(query_args)
                    ELSE command_str \o <<"?">>
         IN  Outcome(<<Call("ask", cmd)>>, InstrQuery("SCPIInstrument", v, env))
    ELSE IF args # <<>>
    THEN LET cmd == command_str \o <<" ">> \o LegacyArgsStr(args)
         IN  Outcome(<<Call("write", cmd)>>, InstrWrite("SCPIInstrument", v, env))
    ELSE Outcome(<<Call("ask", command_str \o <<"?">>)>>,
                 InstrQuery("SCPIInstrument", v, env))

\* SCPICommandProxy.__call__ of klab/instruments/scpi_instrument.py
ProxyCall(v, prefix, args, env) ==
    IF args # <<>>
    THEN Outcome(<<Call("write", prefix \o <<" ">> \o ParamsStr(args))>>, None)
    ELSE Outcome(<<Call("query", prefix \o <<"?">>)>>,
                 InstrQuery("ScpiInstrument", v, env))

----------------------------------------------------------------------------
(* Specification documents (the parsed YAML) *)

\* one entry of a command sequence: a plain string, or a {type, cmd} mapping
\* (type = "" when the key is absent)
StrItem(t) == [form |-> "str", type |-> "", cmd |-> t]
DictItem(type, t) == [form |-> "dict", type |-> type, cmd |-> t]

\* the value of one key of 'methods': a list, or a mapping with a 'commands' key
ListSpec(items) == [form |-> "list", commands |-> items]
CommandsSpec(items) == [form |-> "dict", commands |-> items]

\* a document: a mapping with or without the 'methods' key
Doc(ms) == [kind |-> "dict", hasMethods |-> TRUE, methods |-> ms]
DocNoMethods == [kind |-> "dict", hasMethods |-> FALSE, methods |-> <<>>]

T_BarBaz_x == <<"B", "A", "R", ":", "B", "A", "Z", " ", "{", "x", "}">>
T_BarBazQ == <<"B", "A", "R", ":", "B", "A", "Z", "?", " ">>
T_AB_x == <<"A", ":", "B", " ", "{", "x", "}">>

\* methods: {foo: ["BAR:BAZ {x}"]}
DocFoo == Doc(N_foo :> ListSpec(<<StrItem(T_BarBaz_x)>>))

\* methods: {foo: ["A:B {x}", "BAR:BAZ? "], reset: ["A:B {x}"]}
DocFooReset ==
    Doc(N_foo :> ListSpec(<<StrItem(T_AB_x), StrItem(T_BarBazQ)>>)
        @@ N_reset :> ListSpec(<<StrItem(T_AB_x)>>))

\* methods: {foo: ["A:B {x}", "BAR:BAZ {x}"]}
DocTwoWrites == Doc(N_foo :> ListSpec(<<StrItem(T_AB_x), StrItem(T_BarBaz_x)>>))

\* the documents a load can yield
Docs == {DocNoMethods, DocFoo, DocFooReset, DocTwoWrites}

P_x == <<"x">>
T_3 == <<"3">>

\* keyword arguments of a declarative-method call
KwargSets == { <<>>, P_x :> Num(T_3) }

\* 'methods' in self.spec and name in self.spec['methods']
InSpec(sp, name) == sp.hasMethods /\ name \in DOMAIN sp.methods

----------------------------------------------------------------------------
(* str.format with keyword arguments *)

\* index of the first c in t at or after i, 0 when there is none
RECURSIVE Find(_, _, _)
Find(t, c, i) ==
    IF i > Len(t) THEN 0 ELSE IF t[i] = c THEN i ELSE Find(t, c, i + 1)

FormatOk(text) == [ok |-> TRUE, text |-> text, exc |-> ""]
FormatErr(e) == [ok |-> FALSE, text |-> <<>>, exc |-> e]

\* t.format of the keywords kw from position i on, acc being the text produced so far
RECURSIVE FormatFrom(_, _, _, _)
FormatFrom(t, i, kw, acc) ==
    IF i > Len(t) THEN FormatOk(acc)
    ELSE IF t[i] = "{"
    THEN LET j == Find(t, "}", i + 1)
         IN  IF j = 0 THEN FormatErr("ValueError")
             ELSE LET field == SubSeq(t, i + 1, j - 1)
                  IN  IF field = <<>> THEN FormatErr("IndexError")
                      ELSE IF field \notin DOMAIN kw THEN FormatErr("KeyError")
                      ELSE FormatFrom(t, j + 1, kw, acc \o PyStr(kw[field]))
    ELSE IF t[i] = "}" THEN FormatErr("ValueError")
    ELSE FormatFrom(t, i + 1, kw, acc \o <<t[i]>>)

\* a substitution that leaves the text as it is when a field cannot be filled
FormatUnchecked(t, kw) ==
    LET f == FormatFrom(t, 1, kw, <<>>) IN IF f.ok THEN f ELSE FormatOk(t)

\* cmd_template.format of the keyword arguments kw
Format(t, kw) == FormatFrom(t, 1, kw, <<>>)

----------------------------------------------------------------------------
(* Attribute resolution on the instrument *)

\* statically declared members the clients and templates of the model name
StaticNames(c) == {N_reset}

\* ScpiInstrument.__getattr__ / SCPIInstrument.__getattr__: the object returned
\* on a lookup miss (chain and seen record the access)
Dispatch(c, ls, sp, name) ==
    IF InSpec(sp, name) THEN Caller(name, sp)
    ELSE IF c = "SCPIInstrument"
         THEN Proxy(Len(ls) + 1, <<>>, <<Attr(name)>>)
         ELSE Proxy(0, name, <<Attr(name)>>)

\* a lookup that consults the specification before the static members
LookupSpecFirst(c, ls, sp, name) ==
    IF InSpec(sp, name) THEN Caller(name, sp)
    ELSE IF name \in StaticNames(c) THEN Bound(name)
    ELSE Dispatch(c, ls, sp, name)

\* getattr(instrument, name): Python consults __getattr__ only when the normal
\* lookup finds no member of that name
Lookup(c, ls, sp, name) ==
    IF name \in StaticNames(c) THEN Bound(name) ELSE Dispatch(c, ls, sp, name)

\* the list heap after Lookup (SCPIInstrument builds [name.upper()] for a proxy)
LookupLists(c, ls, sp, name) ==
    IF c = "SCPIInstrument" /\ Lookup(c, ls, sp, name).type = "proxy"
    THEN Append(ls, <<Upper(name)>>)
    ELSE ls

----------------------------------------------------------------------------
(* Nested-call text of a template *)

WordChars ==
    {"a", "b", "c", "d", "e", "f", "g", "h", "i", "j", "k", "l", "m", "n", "o",
     "p", "q", "r", "s", "t", "u", "v", "w", "x", "y", "z",
     "A", "B", "C", "D", "E", "F", "G", "H", "I", "J", "K", "L", "M", "N", "O",
     "P", "Q", "R", "S", "T", "U", "V", "W", "X", "Y", "Z",
     "0", "1", "2", "3", "4", "5", "6", "7", "8", "9", "_", "."}

Digits == {"0", "1", "2", "3", "4", "5", "6", "7", "8", "9"}

\* length of the longest prefix of s made of characters of set cs
RECURSIVE PrefixLen(_, _)
PrefixLen(s, cs) ==
    IF s # <<>> /\ Head(s) \in cs THEN 1 + PrefixLen(Tail(s), cs) ELSE 0

\* re.match(r"^\s*([\w\.]+)\((.*)\)\s*$", call_string)
MatchCall(call_string) ==
    LET s == Strip(call_string)
        n == PrefixLen(s, WordChars)
    IN  IF n >= 1 /\ Len(s) >= n + 2 /\ s[n + 1] = "(" /\ s[Len(s)] = ")"
        THEN [ok |-> TRUE, name |-> SubSeq(s, 1, n),
              args |-> SubSeq(s, n + 2, Len(s) - 1)]
        ELSE [ok |-> FALSE, name |-> <<>>, args |-> <<>>]

\* s.split(c)
RECURSIVE Split(_, _)
Split(s, c) ==
    LET j == Find(s, c, 1)
    IN  IF j = 0 THEN <<s>>
        ELSE <<SubSeq(s, 1, j - 1)>> \o Split(SubSeq(s, j + 1, Len(s)), c)

RECURSIVE LStripSet(_, _)
LStripSet(s, cs) == IF s # <<>> /\ Head(s) \in cs THEN LStripSet(Tail(s), cs) ELSE s

RECURSIVE RStripSet(_, _)
RStripSet(s, cs) ==
    IF s # <<>> /\ s[Len(s)] \in cs THEN RStripSet(SubSeq(s, 1, Len(s) - 1), cs) ELSE s

\* float(s) succeeds; decimal literals without exponent are modelled
IsNumber(s) ==
    LET u == IF s # <<>> /\ Head(s) \in {"+", "-"} THEN Tail(s) ELSE s
        n == PrefixLen(u, Digits)
        r == SubSeq(u, n + 1, Len(u))
    IN  \/ n >= 1 /\ r = <<>>
        \/ /\ r # <<>> /\ Head(r) = "."
           /\ PrefixLen(Tail(r), Digits) = Len(r) - 1
           /\ n + Len(r) - 1 >= 1

\* str() of float(s), collapsed to int when float(s).is_integer()
NumberText(s) ==
    LET neg == s # <<>> /\ Head(s) = "-"
        u == IF s # <<>> /\ Head(s) \in {"+", "-"} THEN Tail(s) ELSE s
        n == PrefixLen(u, Digits)
        ip0 == LStripSet(SubSeq(u, 1, n), {"0"})
        ip == IF ip0 = <<>> THEN <<"0">> ELSE ip0
        fr == RStripSet(SubSeq(u, n + 2, Len(u)), {"0"})
    IN  IF fr = <<>>
        THEN IF neg /\ ip # <<"0">> THEN <<"-">> \o ip ELSE ip
        ELSE (IF neg THEN <<"-">> ELSE <<>>) \o ip \o <<".">> \o fr

\* a value parsing that passes every value as text
ParseValueAsText(value_str) ==
    PlainStr(RStripSet(LStripSet(value_str, {"'", "\""}), {"'", "\""}))

\* one value of a nested call: a number when lexically one, else the text
\* with surrounding quotes stripped
ParseValue(value_str) ==
    IF IsNumber(value_str) THEN Num(NumberText(value_str))
    ELSE PlainStr(RStripSet(LStripSet(value_str, {"'", "\""}), {"'", "\""}))

\* a pair parsing that refuses no pair (and passes no keyword)
RECURSIVE ParsePairsLenient(_, _, _)
ParsePairsLenient(pairs, i, kw) ==
    IF i > Len(pairs) THEN [ok |-> TRUE, kw |-> kw]
    ELSE ParsePairsLenient(pairs, i + 1, kw)

\* the keyword arguments parsed from the pairs from position i on
RECURSIVE ParsePairs(_, _, _)
ParsePairs(pairs, i, kw) ==
    IF i > Len(pairs) THEN [ok |-> TRUE, kw |-> kw]
    ELSE LET pair == Strip(pairs[i])
             j == Find(pair, "=", 1)
         IN  IF j = 0 THEN [ok |-> FALSE, kw |-> kw]
             ELSE LET key == Strip(SubSeq(pair, 1, j - 1))
                      value_str == Strip(SubSeq(pair, j + 1, Len(pair)))
                      rest == [k \in DOMAIN kw \ {key} |-> kw[k]]
                  IN  ParsePairs(pairs, i + 1, key :> ParseValue(value_str) @@ rest)

\* kwargs_to_pass of _safe_nested_call
ParseKwargs(args_str) ==
    IF Strip(args_str) = <<>> THEN [ok |-> TRUE, kw |-> <<>>]
    ELSE ParsePairs(Split(args_str, ","), 1, <<>>)

----------------------------------------------------------------------------
(* Declarative method executor *)

\* the transport's behaviour for the k-th command of a top-level call
EnvAt(envs, k) == IF k <= Len(envs) THEN envs[k] ELSE envs[Len(envs)]

\* cmd_template.split(' ')[0]
FirstToken(t) == Split(t, " ")[1]

\* the write/query kind of one entry of a command sequence
CmdType(item) ==
    IF item.form = "str"
    THEN IF EndsWith(Strip(item.cmd), "?") \/ EndsWith(FirstToken(item.cmd), "?")
         THEN "query" ELSE "write"
    ELSE IF item.type = "" THEN "write" ELSE item.type

\* a collection that appends every response
CollectAll(results, r) == Append(results, r)

\* results.append(last_response) under its condition
Collect(results, r) ==
    IF r.kind # "None" /\ (r.kind # "list" \/ r.items # <<>>)
    THEN Append(results, r) ELSE results

\* reset() of either class
Reset(c, v, env) == Outcome(<<Call("write", <<"*", "R", "S", "T">>)>>, InstrWrite(c, v, env))

RECURSIVE ExecuteYamlMethod(_, _, _, _, _, _, _)
RECURSIVE ExecItems(_, _, _, _, _, _, _, _, _)
RECURSIVE SafeNestedCall(_, _, _, _, _, _)

\* ScpiInstrument._safe_nested_call, after the operations in cs
SafeNestedCall(v, sp, call_string, envs, cs, depth) ==
    LET m == MatchCall(call_string)
    IN  IF ~m.ok THEN Outcome(cs, Raise("ValueError"))
        ELSE
        LET method_to_call == Lookup("ScpiInstrument", <<>>, sp, m.name)
            p == ParseKwargs(m.args)
            cs1 == Append(cs, Invoke(m.name, p.kw))
            env == EnvAt(envs, Len(Commands(cs)) + 1)
        IN  IF sp.kind = "none" /\ m.name \notin StaticNames("ScpiInstrument")
            THEN Outcome(cs, Raise("TypeError"))
            ELSE IF ~p.ok THEN Outcome(cs, Raise("ValueError"))
            ELSE IF method_to_call.type = "caller"
            THEN ExecuteYamlMethod(v, sp, m.name, p.kw, envs, cs1, depth + 1)
            ELSE IF p.kw # <<>> THEN Outcome(cs1, Raise("TypeError"))
            ELSE IF method_to_call.type = "static"
            THEN LET r == Reset("ScpiInstrument", v, env)
                 IN  Outcome(cs1 \o r.calls, r.ret)
            ELSE Outcome(Append(cs1, Call("query", m.name \o <<"?">>)),
                         InstrQuery("ScpiInstrument", v, env))

\* the loop of ScpiInstrument._execute_yaml_method from entry i on
ExecItems(v, sp, items, i, kw, envs, cs, results, depth) ==
    IF i > Len(items) THEN Outcome(cs, ListVal(results))
    ELSE
    LET item == items[i]
    IN  IF item.form \notin {"str", "dict"} THEN Outcome(cs, Raise("ValueError"))
        ELSE
        LET f == Format(item.cmd, kw)
        IN  IF ~f.ok THEN Outcome(cs, Raise(f.exc))
            ELSE
            LET step ==
                    IF Contains(f.text, "(") /\ Contains(f.text, ")")
                    THEN SafeNestedCall(v, sp, f.text, envs, cs, depth)
                    ELSE IF CmdType(item) = "write"
                    THEN Outcome(Append(cs, Call("write", f.text)),
                                 InstrWrite("ScpiInstrument", v,
                                            EnvAt(envs, Len(Commands(cs)) + 1)))
                    ELSE Outcome(Append(cs, Call("query", f.text)),
                                 InstrQuery("ScpiInstrument", v,
                                            EnvAt(envs, Len(Commands(cs)) + 1)))
            IN  IF IsRaise(step.ret) THEN step
                ELSE ExecItems(v, sp, items, i + 1, kw, envs, step.calls,
                               Collect(results, step.ret), depth)

\* an executor that the interpreter stops one level later
ExecuteYamlMethodDeeper(v, sp, method_name, kw, envs, cs, depth) ==
    IF depth > MaxRecursion + 1 THEN Outcome(cs, Raise("RecursionError"))
    ELSE IF sp.kind = "none" THEN Outcome(cs, Raise("TypeError"))
    ELSE IF ~InSpec(sp, method_name) THEN Outcome(cs, Raise("AttributeError"))
    ELSE
    LET method_spec == sp.methods[method_name]
    IN  IF method_spec.form \notin {"list", "dict"}
        THEN Outcome(cs, Raise("ValueError"))
        ELSE ExecItems(v, sp, method_spec.commands, 1, kw, envs, cs, <<>>, depth)

\* ScpiInstrument._execute_yaml_method, after the operations in cs
ExecuteYamlMethod(v, sp, method_name, kw, envs, cs, depth) ==
    IF depth > MaxRecursion THEN Outcome(cs, Raise("RecursionError"))
    ELSE IF sp.kind = "none" THEN Outcome(cs, Raise("TypeError"))
    ELSE IF ~InSpec(sp, method_name) THEN Outcome(cs, Raise("AttributeError"))
    ELSE
    LET method_spec == sp.methods[method_name]
    IN  IF method_spec.form \notin {"list", "dict"}
        THEN Outcome(cs, Raise("ValueError"))
        ELSE ExecItems(v, sp, method_spec.commands, 1, kw, envs, cs, <<>>, depth)

\* the loop of SCPIInstrument._execute_yaml_method (klab/instrument.py)
RECURSIVE LegacyExecItems(_, _, _, _, _, _)
LegacyExecItems(v, items, i, kw, envs, cs) ==
    IF i > Len(items) THEN Outcome(cs, None)
    ELSE
    LET item == items[i]
    IN  IF item.form # "str" THEN Outcome(cs, Raise("AttributeError"))
        ELSE
        LET f == Format(item.cmd, kw)
        IN  IF ~f.ok THEN Outcome(cs, Raise(f.exc))
            ELSE
            LET r == InstrWrite("SCPIInstrument", v, EnvAt(envs, Len(cs) + 1))
                cs2 == Append(cs, Call("write", f.text))
            IN  IF IsRaise(r) THEN Outcome(cs2, r)
                ELSE LegacyExecItems(v, items, i + 1, kw, envs, cs2)

\* what "for command in command_sequence" iterates over: the entries of a
\* list, the keys of a mapping
LegacySequence(method_spec) ==
    IF method_spec.form = "list" THEN method_spec.commands
    ELSE <<StrItem(<<"c", "o", "m", "m", "a", "n", "d", "s">>)>>

\* SCPIInstrument._execute_yaml_method (klab/instrument.py)
LegacyExecuteYamlMethod(v, sp, method_name, kw, envs) ==
    IF sp.kind = "none" THEN Outcome(<<>>, Raise("TypeError"))
    ELSE IF ~InSpec(sp, method_name) THEN Outcome(<<>>, Raise("AttributeError"))
    ELSE LegacyExecItems(v, LegacySequence(sp.methods[method_name]), 1, kw, envs, <<>>)

\* a caller that keeps the specification it was created under
CallerSpecCached(o, sp) == o.seen

\* the sequence a method caller runs: looked up in self.spec when it is called
CallerSpec(o, sp) == sp

\* method_caller(**kwargs) of the two __getattr__
MethodCaller(c, v, sp, o, kw, envs) ==
    IF c = "SCPIInstrument"
    THEN LET r == LegacyExecuteYamlMethod(v, CallerSpec(o, sp), o.name, kw, envs)
         IN  IF IsRaise(r.ret) THEN r ELSE Outcome(r.calls, None)
    ELSE ExecuteYamlMethod(v, CallerSpec(o, sp), o.name, kw, envs, <<>>, 0)

----------------------------------------------------------------------------
(* Connection: KlabInstrument, its communication backend, the resources *)

K_Rst == <<"*", "R", "S", "T">>
K_IdnQ == <<"*", "I", "D", "N", "?">>
K_StbQ == <<"*", "S", "T", "B", "?">>

\* the keys of the dictionary get_idn returns, in the order of the fields
IdnKeys == <<"vendor", "model", "serial", "firmware">>

\* the classes a communication backend object can have:
\*   "VisaBackend"       klab/instruments/klab_instrument.py (the default)
\*   "comm.VisaBackend"  klab/instruments/comm/visa_backend.py
\*   "XimcBackend"       klab/instruments/drivers/standa_8smc4.py
BackendKinds == {"VisaBackend", "comm.VisaBackend", "XimcBackend"}

\* a handle is the index of a resource in pyvisa.resources; 0 stands for None;
\* a resource manager carries the index of the resource it opens or fails to open
NewBackend(kind) == [kind |-> kind, handle |-> 0, rm |-> 0]

\* a freshly opened resource; closes counts the close() calls made on it,
\* raised records that one of them raised
NewResource == [open |-> TRUE, closes |-> 0, raised |-> FALSE]

\* no resource opened
NoResources == [resources |-> <<>>]

\* one call of self.write / self.read / self.query on the instrument
Issued(operation, cmd) == [at |-> "instrument", to |-> 0, op |-> operation, cmd |-> cmd]

\* one call that leaves the instrument: to = 0 for a call of a method of
\* self._comm_backend, to = h for a call made on the resource h itself
Sent(to, operation, cmd) ==
    [at |-> IF to = 0 THEN "backend" ELSE "resource", to |-> to,
     op |-> operation, cmd |-> cmd]

\* the calls that reached the backend object, and those that reached a resource
ToBackend(cs) == SelectSeq(cs, LAMBDA c : c.at = "backend")
ToResource(cs) == SelectSeq(cs, LAMBDA c : c.at = "resource")

\* str.lower() on one character
LowerChar(c) ==
    CASE c = "T" -> "t" [] c = "R" -> "r" [] c = "U" -> "u" [] c = "E" -> "e"
      [] c = "Y" -> "y" [] c = "S" -> "s"
      [] OTHER -> c

\* str.lower()
Lower(s) == [i \in 1..Len(s) |-> LowerChar(s[i])]

\* environ.get('KLAB_DEBUG_STREAM', 'False').lower() in ('true', '1', 't');
\* an unset variable is the empty sequence
DebugStream(value) ==
    LET v == IF value = <<>> THEN <<"F", "a", "l", "s", "e">> ELSE value
    IN  Lower(v) \in {<<"t", "r", "u", "e">>, <<"1">>, <<"t">>}

\* the fields KlabInstrument.__init__ sets before it connects
NewInstrument(value) == [handle |-> 0, rm |-> 0, debug |-> DebugStream(value)]

\* how one connect attempt goes: the resource is opened; opening it raises
\* (open_resource, Axis.open_device); or there is nothing to open it with
\* (ResourceManager() raises, the address is not a valid XIMC address)
ConnectOutcomes == {"ok", "refused", "unavailable"}

\* connect() of VisaBackend (both classes) and of XimcBackend
BackendConnect(b, lib, how) ==
    LET h == Len(lib.resources) + 1
        opened == [lib EXCEPT !.resources = Append(@, NewResource)]
    IN  IF b.kind = "XimcBackend"
        THEN IF how = "unavailable"
             THEN [backend |-> b, lib |-> lib, success |-> FALSE]
             ELSE IF how = "refused"
             THEN [backend |-> [b EXCEPT !.handle = 0], lib |-> lib, success |-> FALSE]
             ELSE [backend |-> [b EXCEPT !.handle = h], lib |-> opened, success |-> TRUE]
        ELSE IF how = "unavailable"
        THEN [backend |-> [b EXCEPT !.handle = 0], lib |-> lib, success |-> FALSE]
        ELSE
        IF how = "refused"
        THEN [backend |-> [b EXCEPT !.handle = 0, !.rm = h], lib |-> lib, success |-> FALSE]
        ELSE [backend |-> [b EXCEPT !.handle = h, !.rm = h], lib |-> opened, success |-> TRUE]

\* KlabInstrument.connect
KlabConnect(i, b, lib, how) ==
    LET r == BackendConnect(b, lib, how)
    IN  [inst |-> IF r.success /\ b.kind = "VisaBackend"
                  THEN [i EXCEPT !.handle = r.backend.handle, !.rm = r.backend.rm]
                  ELSE i,
         backend |-> r.backend, lib |-> r.lib]

\* close() / close_device() on the resource h: it closes it, or it raises
CloseResource(lib, h, closeOk) ==
    [lib EXCEPT !.resources[h] = [open |-> @.open /\ ~closeOk, closes |-> @.closes + 1,
                                  raised |-> @.raised \/ ~closeOk]]

\* disconnect() of VisaBackend (both classes) and of XimcBackend
BackendDisconnect(b, lib, closeOk) ==
    IF b.handle = 0
    THEN [backend |-> [b EXCEPT !.rm = 0], lib |-> lib, raised |-> FALSE]
    ELSE IF b.kind = "XimcBackend"
    THEN [backend |-> [b EXCEPT !.handle = 0],
          lib |-> CloseResource(lib, b.handle, closeOk), raised |-> FALSE]
    ELSE IF closeOk
    THEN [backend |-> [b EXCEPT !.handle = 0, !.rm = 0],
          lib |-> CloseResource(lib, b.handle, TRUE), raised |-> FALSE]
    ELSE [backend |-> b, lib |-> CloseResource(lib, b.handle, FALSE), raised |-> TRUE]

\* KlabInstrument.disconnect (also close and __del__): it returns None
KlabDisconnect(i, b, lib, closeOk) ==
    LET r == BackendDisconnect(b, lib, closeOk)
    IN  [inst |-> IF r.raised THEN i ELSE [i EXCEPT !.handle = 0, !.rm = 0],
         backend |-> r.backend, lib |-> r.lib]

\* is_connected() of the backend, as KlabInstrument.is_connected reports it
\* (reading .session of a closed resource raises, which gives False)
IsConnected(b, lib) ==
    IF b.kind = "VisaBackend"
    THEN b.handle # 0 /\ lib.resources[b.handle].open
    ELSE b.handle # 0

\* one operation on the resource h under the transport behaviour env
ResourceIO(lib, h, env, strip) ==
    IF ~lib.resources[h].open THEN Raise("InvalidSession")
    ELSE IF ~env.ok THEN Raise("VisaIOError")
    ELSE StrVal(IF strip THEN Strip(env.resp) ELSE env.resp)

\* write() of the backend
BackendWrite(b, lib, cmd, env) ==
    IF b.kind = "XimcBackend" THEN Outcome(<<>>, None)
    ELSE IF b.handle = 0 THEN Outcome(<<>>, Raise("RuntimeError"))
    ELSE LET r == ResourceIO(lib, b.handle, env, FALSE)
         IN  Outcome(<<Sent(b.handle, "write", cmd)>>, IF IsRaise(r) THEN r ELSE None)

\* read() of the backend
BackendRead(b, lib, env) ==
    IF b.kind = "XimcBackend" THEN Outcome(<<>>, StrVal(<<>>))
    ELSE IF b.handle = 0 THEN Outcome(<<>>, Raise("RuntimeError"))
    ELSE Outcome(<<Sent(b.handle, "read", <<>>)>>,
                 ResourceIO(lib, b.handle, env, b.kind = "VisaBackend"))

\* query() of the backend
BackendQuery(b, lib, cmd, env) ==
    IF b.kind = "XimcBackend" THEN Outcome(<<>>, StrVal(<<>>))
    ELSE IF b.handle = 0 THEN Outcome(<<>>, Raise("RuntimeError"))
    ELSE Outcome(<<Sent(b.handle, "query", cmd)>>,
                 ResourceIO(lib, b.handle, env, b.kind = "VisaBackend"))

\* what an operation of the instrument did: the calls that left the
\* instrument, the value returned or raised, the debug lines printed
Done(cs, ret, lines) == [calls |-> cs, ret |-> ret, trace |-> lines]

\* except Exception: print a warning, return None
Swallow(r) == IF IsRaise(r) THEN None ELSE r

\* KlabInstrument.write
KlabWrite(i, b, lib, cmd, env) ==
    LET r == BackendWrite(b, lib, cmd, env)
    IN  Done(<<Issued("write", cmd), Sent(0, "write", cmd)>> \o r.calls, None,
             IF i.debug THEN <<"WRITE">> ELSE <<>>)

\* a read that, when tracing, fetches the response a second time to print it
KlabReadTraced(i, b, lib, env) ==
    LET r == BackendRead(b, lib, env)
    IN  IF i.debug
        THEN Done(<<Issued("read", <<>>), Sent(0, "read", <<>>)>> \o r.calls
                      \o <<Sent(0, "read", <<>>)>> \o r.calls,
                  Swallow(r.ret), <<"READ", "RECV">>)
        ELSE Done(<<Issued("read", <<>>), Sent(0, "read", <<>>)>> \o r.calls,
                  Swallow(r.ret), <<>>)

\* KlabInstrument.read
KlabRead(i, b, lib, env) ==
    LET r == BackendRead(b, lib, env)
    IN  Done(<<Issued("read", <<>>), Sent(0, "read", <<>>)>> \o r.calls, Swallow(r.ret),
             IF ~i.debug THEN <<>>
             ELSE IF IsRaise(r.ret) THEN <<"READ">> ELSE <<"READ", "RECV">>)

\* KlabInstrument.query
KlabQuery(i, b, lib, cmd, env) ==
    LET r == BackendQuery(b, lib, cmd, env)
    IN  Done(<<Issued("query", cmd), Sent(0, "query", cmd)>> \o r.calls, Swallow(r.ret),
             IF ~i.debug THEN <<>>
             ELSE IF IsRaise(r.ret) THEN <<"QUERY">> ELSE <<"QUERY", "RECV">>)

\* KlabInstrument.wait: the sleep itself changes nothing
KlabWait(i) == Done(<<>>, None, IF i.debug THEN <<"WAIT">> ELSE <<>>)

\* the retries a query makes when the caller passes none
DefaultRetries == 5

RECURSIVE Attempts(_, _, _, _, _, _, _)
\* the while loop of ScpiInstrument.query on the resource h
Attempts(lib, h, cmd, retries, envs, attempt, cs) ==
    IF ~(attempt < retries) THEN Done(cs, Raise("ConnectionError"), <<>>)
    ELSE
    LET r == ResourceIO(lib, h, EnvAt(envs, attempt + 1), TRUE)
        cs1 == Append(cs, Sent(h, "query", cmd))
    IN  IF r.kind = "raise" /\ r.exc = "VisaIOError"
        THEN Attempts(lib, h, cmd, retries, envs, attempt + 1,
                      Append(cs1, Sent(h, "clear", <<>>)))
        ELSE Done(cs1, r, <<>>)

\* ScpiInstrument.query
ScpiQuery(i, lib, cmd, retries, envs) ==
    IF i.handle = 0 THEN Done(<<Issued("query", cmd)>>, None, <<>>)
    ELSE Attempts(lib, i.handle, cmd, retries, envs, 0, <<Issued("query", cmd)>>)

\* self.write / self.read / self.query of an instrument of class c
InstWrite(c, i, b, lib, cmd, env) == KlabWrite(i, b, lib, cmd, env)
InstRead(c, i, b, lib, env) == KlabRead(i, b, lib, env)
InstQuery(c, i, b, lib, cmd, retries, envs) ==
    IF c = "ScpiInstrument" THEN ScpiQuery(i, lib, cmd, retries, envs)
    ELSE KlabQuery(i, b, lib, cmd, envs[1])

\* self.write(cmd) or self.query(cmd) of an ScpiInstrument, for an operation
\* of the proxy or of the executor; a write gives the caller ret
Deliver(i, b, lib, call, ret, envs) ==
    IF call.op = "write"
    THEN LET w == InstWrite("ScpiInstrument", i, b, lib, call.cmd, envs[1])
         IN  Done(w.calls, ret, w.trace)
    ELSE InstQuery("ScpiInstrument", i, b, lib, call.cmd, DefaultRetries, envs)

RECURSIVE DeliverAll(_, _, _, _, _, _)
\* the calls that leave the instrument for the operations cs of one run; the
\* k-th operation meets the transport behaviour EnvAt(envs, k)
DeliverAll(i, b, lib, cs, k, envs) ==
    IF k > Len(cs) THEN <<>>
    ELSE Deliver(i, b, lib, cs[k], None, <<EnvAt(envs, k)>>).calls
         \o DeliverAll(i, b, lib, cs, k + 1, envs)

N_ask == <<"a", "s", "k">>

\* an int, kept as its decimal text; a dict, kept as its keys and its values
IntVal(t) == [None EXCEPT !.kind = "int", !.val = t]
DictVal(keys, values) == [None EXCEPT !.kind = "dict", !.items = <<keys, values>>]

\* self.ask(cmd) of ScpiInstrument: the class has no member ask, so the
\* attribute is what __getattr__ returns, called with one positional argument
Ask(sp, i, b, lib, cmd, env) ==
    LET ask == Lookup("ScpiInstrument", <<>>, sp, N_ask)
    IN  IF ask.type = "caller" THEN Done(<<>>, Raise("TypeError"), <<>>)
        ELSE
        LET p == ProxyCall(i.handle # 0, ask.prefix, <<PlainStr(cmd)>>, env)
        IN  Deliver(i, b, lib, p.calls[1], p.ret, <<env>>)

\* ScpiInstrument.get_idn
GetIdnOf(sp, i, b, lib, env) ==
    LET r == Ask(sp, i, b, lib, K_IdnQ, env)
    IN  IF IsRaise(r.ret) THEN r
        ELSE IF r.ret.kind # "str" THEN Done(r.calls, Raise("AttributeError"), r.trace)
        ELSE
        LET parts == Split(Strip(r.ret.val), ",")
        IN  IF Len(parts) < 4 THEN Done(r.calls, Raise("IndexError"), r.trace)
            ELSE Done(r.calls, DictVal(IdnKeys, SubSeq(parts, 1, 4)), r.trace)

\* ScpiInstrument.get_status_byte
GetStatusByteOf(sp, i, b, lib, env) ==
    LET r == Ask(sp, i, b, lib, K_StbQ, env)
    IN  IF IsRaise(r.ret) THEN r
        ELSE IF r.ret.kind # "str" THEN Done(r.calls, Raise("AttributeError"), r.trace)
        ELSE
        LET t == Strip(r.ret.val)
        IN  IF t # <<>> /\ PrefixLen(t, Digits) = Len(t)
            THEN Done(r.calls, IntVal(NumberText(t)), r.trace)
            ELSE Done(r.calls, Raise("ValueError"), r.trace)

\* the values of the connection variables in the scenarios that do not use them
Unwired ==
    /\ backend = NewBackend("VisaBackend")
    /\ inst = NewInstrument(<<>>)
    /\ pyvisa = NoResources
    /\ environ = <<>>
    /\ trace = <<>>
    /\ twin = Done(<<>>, None, <<>>)

----------------------------------------------------------------------------
(* State machine *)

\* the places a specification file can be: the path as given by the caller,
\* the directory of klab/instruments/scpi_instrument.py, the directory of
\* the driver's own source file, the package-level shared directory
Locations == {"given", "module", "driver", "shared"}

\* no file at a location
Absent == [kind |-> "absent", hasMethods |-> FALSE, methods |-> <<>>]

NoFiles == [l \in Locations |-> Absent]

\* sequences of transport behaviours for the commands of one top-level call
EnvSeqs == {<<e>> : e \in TransportOutcomes}
           \cup {<<e1, e2>> : e1 \in {e \in TransportOutcomes : e.ok},
                              e2 \in {e \in TransportOutcomes : ~e.ok}}

\* the record kept in op
Op(name, obj, key, args, kw, envs) ==
    [name |-> name, obj |-> obj, key |-> key, args |-> args, kw |-> kw, envs |-> envs]

Init ==
    /\ op = Op("init", 0, <<>>, <<>>, <<>>, <<>>)
    /\ cls \in {"ScpiInstrument", "SCPIInstrument"}
    /\ visa \in BOOLEAN
    /\ spec \in Docs
    /\ lists = << <<>> >>
    /\ objs = <<>>
    /\ calls = <<>>
    /\ last = None
    /\ nested = <<>>
    /\ files = NoFiles
    /\ required = {}
    /\ alive = TRUE
    /\ loaded = ""
    /\ Unwired

\* getattr(instrument, name)
GetAttr(name) ==
    /\ op' = Op("GetAttr", 0, name, <<>>, <<>>, <<>>)
    /\ Len(objs) < MaxObjs
    /\ IF spec.kind = "none" /\ name \notin StaticNames(cls)
       THEN /\ last' = Raise("TypeError")
            /\ UNCHANGED <<objs, lists>>
       ELSE /\ objs' = Append(objs, Lookup(cls, lists, spec, name))
            /\ lists' = LookupLists(cls, lists, spec, name)
            /\ last' = ObjVal(Len(objs) + 1)
    /\ calls' = <<>>
    /\ UNCHANGED <<cls, visa, spec>>
    /\ nested' = <<>>
    /\ UNCHANGED world

\* SCPICommandProxy(instrument): a proxy built with the default path
NewProxy ==
    /\ op' = Op("NewProxy", 0, <<>>, <<>>, <<>>, <<>>)
    /\ Len(objs) < MaxObjs
    /\ objs' = Append(objs, IF cls = "SCPIInstrument" THEN Proxy(1, <<>>, <<>>)
                            ELSE Proxy(0, <<>>, <<>>))
    /\ last' = ObjVal(Len(objs) + 1)
    /\ calls' = <<>>
    /\ UNCHANGED <<cls, visa, spec, lists>>
    /\ nested' = <<>>
    /\ UNCHANGED world

\* getattr(proxy, name)
ProxyGetAttr(i, name) ==
    /\ op' = Op("ProxyGetAttr", i, name, <<>>, <<>>, <<>>)
    /\ i \in 1..Len(objs) /\ objs[i].type = "proxy"
    /\ Len(objs) < MaxObjs
    /\ IF cls = "SCPIInstrument"
       THEN LET r == LegacyGetattrParts(lists, objs[i].ref, name)
            IN  /\ lists' = r.lists
                /\ objs' = Append(objs, Proxy(r.ref, <<>>, Append(objs[i].chain, Attr(name))))
       ELSE /\ lists' = lists
            /\ objs' = Append(objs, Proxy(0, NewPrefix(objs[i].prefix, name),
                                          Append(objs[i].chain, Attr(name))))
    /\ last' = ObjVal(Len(objs) + 1)
    /\ calls' = <<>>
    /\ UNCHANGED <<cls, visa, spec>>
    /\ nested' = <<>>
    /\ UNCHANGED world

\* proxy[key]
ProxyGetItem(i, key) ==
    /\ op' = Op("ProxyGetItem", i, key, <<>>, <<>>, <<>>)
    /\ i \in 1..Len(objs) /\ objs[i].type = "proxy"
    /\ Len(objs) < MaxObjs
    /\ calls' = <<>>
    /\ IF cls = "SCPIInstrument"
       THEN IF lists[objs[i].ref] = <<>>
            THEN /\ last' = Raise("ValueError")
                 /\ UNCHANGED <<lists, objs>>
            ELSE LET r == LegacyGetitemParts(lists, objs[i].ref, key)
                 IN  /\ lists' = r.lists
                     /\ objs' = Append(objs, Proxy(r.ref, <<>>, Append(objs[i].chain, Item(key))))
                     /\ last' = ObjVal(Len(objs) + 1)
       ELSE /\ last' = Raise("TypeError")
            /\ UNCHANGED <<lists, objs>>
    /\ UNCHANGED <<cls, visa, spec>>
    /\ nested' = <<>>
    /\ UNCHANGED world

\* proxy(*args)
CallProxy(i, args, env) ==
    /\ op' = Op("CallProxy", i, <<>>, args, <<>>, <<env>>)
    /\ i \in 1..Len(objs) /\ objs[i].type = "proxy"
    /\ LET r == IF cls = "SCPIInstrument"
                THEN LegacyProxyCall(visa, CommandStr(cls, lists, objs[i]), args, env)
                ELSE ProxyCall(visa, objs[i].prefix, args, env)
       IN  /\ calls' = r.calls
           /\ last' = r.ret
    /\ UNCHANGED <<cls, visa, spec, lists, objs>>
    /\ nested' = <<>>
    /\ UNCHANGED world

\* method_caller(**kw)
CallMethod(i, kw, envs) ==
    /\ op' = Op("CallMethod", i, <<>>, <<>>, kw, envs)
    /\ i \in 1..Len(objs) /\ objs[i].type = "caller"
    /\ LET r == MethodCaller(cls, visa, spec, objs[i], kw, envs)
       IN  /\ calls' = Commands(r.calls)
           /\ nested' = Invocations(r.calls)
           /\ last' = r.ret
    /\ UNCHANGED <<cls, visa, spec, lists, objs>>
    /\ UNCHANGED world

\* a bound native method called: instrument.reset()
CallStatic(i, env) ==
    /\ op' = Op("CallStatic", i, <<>>, <<>>, <<>>, <<env>>)
    /\ i \in 1..Len(objs) /\ objs[i].type = "static"
    /\ LET r == Reset(cls, visa, env)
       IN  /\ calls' = r.calls
           /\ last' = r.ret
    /\ UNCHANGED <<cls, visa, spec, lists, objs>>
    /\ nested' = <<>>
    /\ UNCHANGED world

\* _load_spec_from_yaml called again: self.spec is replaced by the document read
Reload(doc) ==
    /\ op' = Op("Reload", 0, <<>>, <<>>, <<>>, <<>>)
    /\ spec' = doc
    /\ doc # spec
    /\ calls' = <<>>
    /\ last' = None
    /\ UNCHANGED <<cls, visa, lists, objs>>
    /\ nested' = <<>>
    /\ UNCHANGED world

\* clients that build commands with proxies, on an instrument constructed
\* without a specification file
InitProxy == Init /\ spec = DocNoMethods

NextProxy ==
    \/ GetAttr(N_a)
    \/ NewProxy
    \/ \E i \in 1..MaxObjs, name \in ProxyNames : ProxyGetAttr(i, name)
    \/ \E i \in 1..MaxObjs, key \in IndexKeys : ProxyGetItem(i, key)
    \/ \E i \in 1..MaxObjs, args \in ArgLists, env \in TransportOutcomes : CallProxy(i, args, env)

SpecProxy == InitProxy /\ [][NextProxy]_vars

\* clients that use the instrument's attributes, with reloads of the specification
Next ==
    \/ \E name \in InstrNames : Len(objs) < MaxHeld /\ GetAttr(name)
    \/ \E i \in 1..MaxHeld, env \in TransportOutcomes : CallProxy(i, <<>>, env)
    \/ \E i \in 1..MaxHeld, kw \in KwargSets, envs \in EnvSeqs : CallMethod(i, kw, envs)
    \/ \E i \in 1..MaxHeld, env \in TransportOutcomes : CallStatic(i, env)
    \/ \E doc \in Docs : Reload(doc)

Spec == Init /\ [][Next]_vars

----------------------------------------------------------------------------
(* Direct runs of the declarative executor of klab/instruments/scpi_instrument.py *)

N_configure == <<"c", "o", "n", "f", "i", "g", "u", "r", "e">>
N_bar == <<"b", "a", "r">>
P_y == <<"y">>
P_lvl == <<"l", "v", "l">>

T_MeasQ_1 == <<"M", "E", "A", "S", "?", " ", "1">>
T_Read == <<"R", "E", "A", "D">>
T_SetQ == <<"S", "E", "T", "?">>
T_BarBazQ2 == <<"B", "A", "R", ":", "B", "A", "Z", "?">>
T_C_y == <<"C", " ", "{", "y", "}">>
T_Configure_lvl == <<"c", "o", "n", "f", "i", "g", "u", "r", "e", "(", "l", "e", "v", "e", "l", "=", "{", "l", "v", "l", "}", ")">>
T_Lev_level == <<"L", "E", "V", " ", "{", "l", "e", "v", "e", "l", "}">>
T_Bar == <<"b", "a", "r", "(", ")">>
T_Bar_level == <<"b", "a", "r", "(", "l", "e", "v", "e", "l", "=", "2", ")">>
T_MeasQ_List == <<"M", "E", "A", "S", "?", " ", "(", "@", "1", ")">>
T_Configure_level == <<"c", "o", "n", "f", "i", "g", "u", "r", "e", "(", "l", "e", "v", "e", "l", ")">>
T_AB_1 == <<"A", ":", "B", " ", "1">>

\* methods: {foo: ["BAR:BAZ? "]}
DocQuery == Doc(N_foo :> ListSpec(<<StrItem(T_BarBazQ)>>))

\* methods: {foo: {commands: ["MEAS? 1", {type: query, cmd: "READ"},
\*                             {type: write, cmd: "SET?"}, {cmd: "BAR:BAZ?"}]}}
DocKinds ==
    Doc(N_foo :> CommandsSpec(<<StrItem(T_MeasQ_1), DictItem("query", T_Read),
                                DictItem("write", T_SetQ), DictItem("", T_BarBazQ2)>>))

\* methods: {foo: ["A:B {x}", "BAR:BAZ? ", "C {y}", "A:B {x}"]}
DocMissing ==
    Doc(N_foo :> ListSpec(<<StrItem(T_AB_x), StrItem(T_BarBazQ),
                            StrItem(T_C_y), StrItem(T_AB_x)>>))

\* methods: {foo: ["configure(level={lvl})"], configure: ["LEV {level}"]}
DocNested ==
    Doc(N_foo :> ListSpec(<<StrItem(T_Configure_lvl)>>)
        @@ N_configure :> ListSpec(<<StrItem(T_Lev_level)>>))

\* methods: {foo: ["bar()", "A:B 1"], configure: ["bar(level=2)", "A:B 1"]}
DocUnknown ==
    Doc(N_foo :> ListSpec(<<StrItem(T_Bar), StrItem(T_AB_1)>>)
        @@ N_configure :> ListSpec(<<StrItem(T_Bar_level), StrItem(T_AB_1)>>))

\* methods: {foo: ["A:B {x}", "MEAS? (@1)", "BAR:BAZ? "],
\*           configure: ["configure(level)", "A:B 1"]}
DocBadCall ==
    Doc(N_foo :> ListSpec(<<StrItem(T_AB_x), StrItem(T_MeasQ_List), StrItem(T_BarBazQ)>>)
        @@ N_configure :> ListSpec(<<StrItem(T_Configure_level), StrItem(T_AB_1)>>))

T_Configure == <<"c", "o", "n", "f", "i", "g", "u", "r", "e", "(", ")">>
T_Foo == <<"f", "o", "o", "(", ")">>

\* methods: {foo: ["A:B 1", "BAR:BAZ? ", "configure()", "bar()", "BAR:BAZ? "],
\*           configure: ["MEAS? 1"], bar: ["A:B 1"]}
DocMixed ==
    Doc(N_foo :> ListSpec(<<StrItem(T_AB_1), StrItem(T_BarBazQ), StrItem(T_Configure),
                            StrItem(T_Bar), StrItem(T_BarBazQ)>>)
        @@ N_configure :> ListSpec(<<StrItem(T_MeasQ_1)>>)
        @@ N_bar :> ListSpec(<<StrItem(T_AB_1)>>))

\* methods: {foo: ["A:B 1", "foo()"], configure: ["bar()"],
\*           bar: ["BAR:BAZ? ", "configure()"]}
DocRecursive ==
    Doc(N_foo :> ListSpec(<<StrItem(T_AB_1), StrItem(T_Foo)>>)
        @@ N_configure :> ListSpec(<<StrItem(T_Bar)>>)
        @@ N_bar :> ListSpec(<<StrItem(T_BarBazQ), StrItem(T_Configure)>>))

\* the specifications of the executor scenarios
ExecDocs == {DocQuery, DocKinds, DocMissing, DocNested, DocUnknown, DocBadCall,
             DocMixed, DocRecursive}

\* a transport that answers r1 to the first, second and fourth command of a
\* call and r2 to the others
MixedEnvs ==
    LET r1 == [ok |-> TRUE, resp |-> <<"r", "1", "\n">>]
        r2 == [ok |-> TRUE, resp |-> <<"r", "2", "\n">>]
    IN  <<r1, r1, r2, r1, r2>>

\* method names passed to _execute_yaml_method
ExecNames == {N_foo, N_configure, N_bar}

T_2 == <<"2">>
T_2_0 == <<"2", ".", "0">>
T_2_5 == <<"2", ".", "5">>
T_Qabc == <<"'", "a", "b", "c", "'">>
T_abc == <<"a", "b", "c">>

\* keyword arguments of the direct calls
ExecKwargs ==
    { <<>>,
      P_x :> Num(T_3),
      P_x :> Num(T_3) @@ P_y :> Num(T_5),
      P_lvl :> Num(T_2),
      P_lvl :> Num(T_2_0),
      P_lvl :> Num(T_2_5),
      P_lvl :> PlainStr(T_Qabc) }

\* instrument._execute_yaml_method(name, **kw)
ExecuteDirect(name, kw, envs) ==
    /\ op' = Op("ExecuteDirect", 0, name, <<>>, kw, envs)
    /\ LET r == IF cls = "SCPIInstrument"
                THEN LegacyExecuteYamlMethod(visa, spec, name, kw, envs)
                ELSE ExecuteYamlMethod(visa, spec, name, kw, envs, <<>>, 0)
       IN  /\ calls' = Commands(r.calls)
           /\ nested' = Invocations(r.calls)
           /\ last' = r.ret
    /\ UNCHANGED <<cls, visa, spec, lists, objs>>
    /\ UNCHANGED world

InitExec ==
    /\ op = Op("init", 0, <<>>, <<>>, <<>>, <<>>)
    /\ cls = "ScpiInstrument"
    /\ visa \in BOOLEAN
    /\ spec \in ExecDocs
    /\ lists = << <<>> >>
    /\ objs = <<>>
    /\ calls = <<>>
    /\ last = None
    /\ nested = <<>>
    /\ files = NoFiles
    /\ required = {}
    /\ alive = TRUE
    /\ loaded = ""
    /\ Unwired

NextExec ==
    \E name \in ExecNames, kw \in ExecKwargs, envs \in EnvSeqs \cup {MixedEnvs} :
        ExecuteDirect(name, kw, envs)

SpecExec == InitExec /\ [][NextExec]_vars

----------------------------------------------------------------------------
(* Construction of an instrument and loading of its specification file *)

N_source_voltage == <<"s", "o", "u", "r", "c", "e", "_", "v", "o", "l", "t", "a", "g", "e">>
N_measure_voltage == <<"m", "e", "a", "s", "u", "r", "e", "_", "v", "o", "l", "t", "a", "g", "e">>
N_enable_source == <<"e", "n", "a", "b", "l", "e", "_", "s", "o", "u", "r", "c", "e">>

T_SourVolt == <<"S", "O", "U", "R", ":", "V", "O", "L", "T", " ", "{", "v", "o", "l", "t", "a", "g", "e", "}">>
T_MeasVoltQ == <<"M", "E", "A", "S", ":", "V", "O", "L", "T", "?">>
T_Outp == <<"O", "U", "T", "P", " ", "{", "s", "t", "a", "t", "e", "}">>

\* an empty document: yaml.safe_load returns None
DocNone == [kind |-> "none", hasMethods |-> FALSE, methods |-> <<>>]

\* documents with one, two and three of the methods a driver declares
DocSMU1 == Doc(N_source_voltage :> ListSpec(<<StrItem(T_SourVolt)>>))
DocSMU2 ==
    Doc(N_source_voltage :> ListSpec(<<StrItem(T_SourVolt)>>)
        @@ N_measure_voltage :> ListSpec(<<StrItem(T_MeasVoltQ)>>))
DocSMU3 ==
    Doc(N_source_voltage :> ListSpec(<<StrItem(T_SourVolt)>>)
        @@ N_measure_voltage :> ListSpec(<<StrItem(T_MeasVoltQ)>>)
        @@ N_enable_source :> ListSpec(<<StrItem(T_Outp)>>))

\* the documents a specification file can hold
LoadDocs == {DocNone, DocNoMethods, DocFoo, DocSMU1, DocSMU2, DocSMU3}

\* the @yaml_method names of a driver class, in the order of dir(cls)
RequiredOrder == <<N_enable_source, N_measure_voltage, N_source_voltage>>

\* the sets of @yaml_method names of the classes constructed: a class with
\* none, and a driver with three
RequiredSets == { {}, {N_enable_source, N_measure_voltage, N_source_voltage} }

\* the yaml_file argument: None (""), a relative path, an absolute path
YamlFiles == {"", "k.yml", "/abs/k.yml"}
IsAbs(yaml_file) == yaml_file = "/abs/k.yml"

\* the file system with document d at the locations of S
FilesAt(S, d) == [l \in Locations |-> IF l \in S THEN d ELSE Absent]

\* the candidate locations in the order they are tried: search_paths of
\* load_yaml_spec for ScpiInstrument (its caller is scpi_instrument.py), the
\* single yaml_path of SCPIInstrument; os.path.join gives an absolute
\* file path back unchanged
Candidates(c, yaml_file) ==
    IF c = "SCPIInstrument"
    THEN IF IsAbs(yaml_file) THEN <<"given">> ELSE <<"shared">>
    ELSE IF IsAbs(yaml_file) THEN <<"given", "given">> ELSE <<"module", "given">>

\* the first candidate at which os.path.exists holds, "" when there is none
RECURSIVE FirstExisting(_, _)
FirstExisting(fs, cands) ==
    IF cands = <<>> THEN ""
    ELSE IF fs[Head(cands)].kind # "absent" THEN Head(cands)
    ELSE FirstExisting(fs, Tail(cands))

\* missing_methods of _validate_yaml_methods
MissingMethods(sp, req) ==
    SelectSeq(RequiredOrder, LAMBDA n : n \in req /\ ~InSpec(sp, n))

\* an error that carries a list of names
RaiseWith(e, names) == [Raise(e) EXCEPT !.items = names]

\* the state a constructor leaves and what it returns or raises
Built(sp, from, ret) == [spec |-> sp, loaded |-> from, ret |-> ret]

\* ScpiInstrument.__init__ / SCPIInstrument.__init__ after super().__init__
Constructor(c, fs, req, yaml_file) ==
    IF yaml_file = "" THEN Built(DocNoMethods, "", None)
    ELSE
    LET from == FirstExisting(fs, Candidates(c, yaml_file))
    IN  IF c = "SCPIInstrument"
        THEN IF from = "" THEN Built(DocNoMethods, "", None)
             ELSE Built(fs[from], from, None)
        ELSE IF from = "" THEN Built(DocNoMethods, "", Raise("FileNotFoundError"))
        ELSE IF fs[from].kind = "none" THEN Built(fs[from], from, Raise("TypeError"))
        ELSE IF MissingMethods(fs[from], req) # <<>>
        THEN Built(fs[from], from,
                   RaiseWith("NotImplementedError", MissingMethods(fs[from], req)))
        ELSE Built(fs[from], from, None)

\* instrument = cls(name, address, yaml_file=yaml_file): the connection
\* attempt of the base constructor succeeds or fails (connected)
Construct(yaml_file, connected) ==
    /\ ~alive
    /\ op' = Op("Construct", 0, yaml_file, <<connected>>, <<>>, <<>>)
    /\ visa' = connected
    /\ LET r == Constructor(cls, files, required, yaml_file)
       IN  /\ spec' = r.spec
           /\ loaded' = r.loaded
           /\ last' = r.ret
           /\ alive' = ~IsRaise(r.ret)
    /\ calls' = <<>>
    /\ nested' = <<>>
    /\ UNCHANGED <<cls, lists, objs, files, required>>
    /\ UNCHANGED wire

\* KlabInstrument.__del__ on the object of a constructor that raised: it runs
\* when the interpreter collects the object, which is after the caller has
\* let go of the exception (its traceback refers to the object), if ever
Finalize ==
    /\ ~alive /\ visa
    /\ op.name = "Construct"
    /\ op' = Op("Finalize", 0, <<>>, <<>>, <<>>, <<>>)
    /\ visa' = FALSE
    /\ last' = None
    /\ UNCHANGED <<cls, spec, lists, objs, calls, nested>>
    /\ UNCHANGED world

\* names used on a constructed instrument
LoadNames == {N_foo, N_source_voltage}

InitLoad ==
    /\ op = Op("init", 0, <<>>, <<>>, <<>>, <<>>)
    /\ cls \in {"ScpiInstrument", "SCPIInstrument"}
    /\ visa = FALSE
    /\ spec = DocNoMethods
    /\ lists = << <<>> >>
    /\ objs = <<>>
    /\ calls = <<>>
    /\ last = None
    /\ nested = <<>>
    /\ files \in {FilesAt(S, DocFoo) : S \in SUBSET Locations}
                  \cup {FilesAt(Locations, d) : d \in LoadDocs}
    /\ required \in RequiredSets
    /\ alive = FALSE
    /\ loaded = ""
    /\ Unwired

NextLoad ==
    \/ \E yaml_file \in YamlFiles, connected \in BOOLEAN : Construct(yaml_file, connected)
    \/ Finalize
    \/ \E name \in {N_foo, N_reset} : alive /\ Len(objs) < MaxHeld /\ GetAttr(name)
    \/ \E name \in LoadNames, env \in {e \in TransportOutcomes : e.ok} :
          alive /\ ExecuteDirect(name, <<>>, <<env>>)

SpecLoad == InitLoad /\ [][NextLoad]_vars

----------------------------------------------------------------------------
(* Vocabulary of the properties *)

\* the path segments of a proxy object
PathOf(c, ls, o) ==
    IF c = "SCPIInstrument" THEN ls[o.ref]
    ELSE IF o.prefix = <<>> THEN <<>> ELSE Split(o.prefix, ":")

\* the path the design assigns to a chain of accesses: an attribute access adds
\* the uppercased name as a new segment, an indexed access extends the last one
RECURSIVE ChainPath(_)
ChainPath(chain) ==
    IF chain = <<>> THEN <<>>
    ELSE LET front == ChainPath(SubSeq(chain, 1, Len(chain) - 1))
             st == chain[Len(chain)]
         IN  IF st.step = "attr" THEN Append(front, Upper(st.key))
             ELSE IF front = <<>> THEN front
             ELSE [front EXCEPT ![Len(front)] = @ \o st.key]

\* a chain of N >= 1 attribute accesses
IsAttrChain(chain) ==
    Len(chain) >= 1 /\ \A k \in 1..Len(chain) : chain[k].step = "attr"

\* the wire text of one argument: number as its text, NoQuote bare, plain
\* string in single quotes
WireArg(arg) ==
    IF arg.kind = "str" THEN <<"'">> \o arg.text \o <<"'">> ELSE arg.text

\* comma-joined wire text of an argument tuple
WireArgs(args) == Join(<<",">>, [k \in 1..Len(args) |-> WireArg(args[k])])

\* the call just made was proxy(*args) on a proxy built by attribute accesses
CalledChain == op.name = "CallProxy" /\ IsAttrChain(objs[op.obj].chain)

\* the colon-joined uppercase path of the proxy just called
CalledPath == Join(<<":">>, ChainPath(objs[op.obj].chain))

----------------------------------------------------------------------------
(* Command proxy: properties checked under SpecProxy *)

\* C1: a chain of N >= 1 attribute accesses called with no argument issues
\* exactly one command, the uppercased segments joined by ':' followed by '?',
\* through the instrument's query operation, and returns the query's result.
C1_ZeroArgQuery ==
    (CalledChain /\ op.args = <<>>) =>
        /\ calls = <<Call(QueryOp(cls), CalledPath \o <<"?">>)>>
        /\ last = InstrQuery(cls, visa, op.envs[1])

\* C1 restricted to klab/instrument.py, where it holds
C1_HoldsForSCPIInstrument == cls = "SCPIInstrument" => C1_ZeroArgQuery

\* a.b.c() on klab/instrument.py has issued 'A:B:C?'
C1_ExampleReached ==
    /\ cls = "SCPIInstrument" /\ CalledChain /\ op.args = <<>>
    /\ objs[op.obj].chain = <<Attr(N_a), Attr(N_b), Attr(N_c)>>
    /\ Str(calls[1].cmd) = "A:B:C?"

\* C2: a chain called with one numeric argument issues exactly one command,
\* the path, one space and the number's text, through write, and returns nothing.
C2_NumericWrite ==
    (CalledChain /\ Len(op.args) = 1 /\ op.args[1].kind = "num") =>
        /\ calls = <<Call("write", CalledPath \o <<" ">> \o op.args[1].text)>>
        /\ (last = None \/ IsRaise(last))

\* C2 restricted to klab/instrument.py, where it holds
C2_HoldsForSCPIInstrument == cls = "SCPIInstrument" => C2_NumericWrite

\* C3: a chain whose first call argument is the force-query marker issues the
\* path followed by '?', then the remaining arguments after one space, through
\* the query operation; the marker is not rendered.
C3_ForceQuery ==
    (CalledChain /\ op.args # <<>> /\ op.args[1] = QMarker) =>
        /\ Len(calls) = 1
        /\ calls[1].op = QueryOp(cls)
        /\ calls[1].cmd =
              CalledPath \o <<"?">> \o
              (IF Tail(op.args) = <<>> THEN <<>>
               ELSE <<" ">> \o WireArgs(Tail(op.args)))

\* C3 restricted to klab/instrument.py, where it holds
C3_HoldsForSCPIInstrument == cls = "SCPIInstrument" => C3_ForceQuery

\* C4: p[k] on a proxy with a non-empty path returns a proxy with the same
\* number of segments, str(k) appended to the last one; on an empty path it
\* fails with the invalid-state error (ValueError); no command is issued.
C4_IndexedAccess ==
    op.name = "ProxyGetItem" =>
        LET path == PathOf(cls, lists, objs[op.obj])
        IN  /\ calls = <<>>
            /\ IF path # <<>>
               THEN /\ last.kind = "obj"
                    /\ PathOf(cls, lists, objs[last.obj]) =
                          [path EXCEPT ![Len(path)] = @ \o op.key]
               ELSE last = Raise("ValueError")

\* C4 restricted to klab/instrument.py, where it holds
C4_HoldsForSCPIInstrument == cls = "SCPIInstrument" => C4_IndexedAccess

\* C5: in a proxy call with arguments, each argument is rendered by kind and
\* the renderings are comma-joined without spaces after exactly one space
\* following the command (with its '?' in the query form).
C5_ArgumentRendering ==
    (op.name = "CallProxy" /\ op.args # <<>> /\ op.args # <<QMarker>>) =>
        LET isq == op.args[1] = QMarker
            rest == IF isq THEN Tail(op.args) ELSE op.args
            head == CommandStr(cls, lists, objs[op.obj])
                    \o (IF isq THEN <<"?">> ELSE <<>>)
        IN  /\ Len(calls) = 1
            /\ calls[1].cmd = head \o <<" ">> \o WireArgs(rest)

\* C5 restricted to klab/instrument.py, where it holds
C5_HoldsForSCPIInstrument == cls = "SCPIInstrument" => C5_ArgumentRendering

\* C6: the command of a proxy is fixed by the accesses that created it: at
\* every moment every proxy carries the segments of its own chain only
\* (compared without regard to letter case), whatever was done since with it
\* or with proxies sharing its parent or its default path.
C6_PathImmutable ==
    \A i \in 1..Len(objs) :
        objs[i].type = "proxy" =>
            Upper(CommandStr(cls, lists, objs[i])) = Join(<<":">>, ChainPath(objs[i].chain))

\* two proxies built with the default path, a proxy derived by attribute
\* access, and then a call on the second default proxy
C6_Witness ==
    /\ cls = "SCPIInstrument"
    /\ Len(objs) >= 3
    /\ objs[1].chain = <<>> /\ objs[2].chain = <<>>
    /\ objs[3].chain = <<Attr(N_b)>>
    /\ op.name = "CallProxy" /\ op.obj = 2 /\ op.args = <<>>
    /\ Str(calls[1].cmd) = "?"

----------------------------------------------------------------------------
(* Dispatcher and executor: properties checked under Spec *)

\* _execute_yaml_method of the class of the instrument
Executor(c, v, sp, method_name, kw, envs) ==
    IF c = "SCPIInstrument"
    THEN LegacyExecuteYamlMethod(v, sp, method_name, kw, envs)
    ELSE ExecuteYamlMethod(v, sp, method_name, kw, envs, <<>>, 0)

\* C7: a name that is no static member resolves to a callable running the
\* executor for that name and returning its result when the name is a key of
\* the loaded methods mapping, and otherwise to a fresh proxy whose path is
\* the single segment name.upper().
C7_Dispatch ==
    /\ (op.name = "GetAttr" /\ op.key \notin StaticNames(cls)) =>
          /\ last = ObjVal(Len(objs))
          /\ IF InSpec(spec, op.key)
             THEN objs[last.obj].type = "caller" /\ objs[last.obj].name = op.key
             ELSE /\ objs[last.obj].type = "proxy"
                  /\ PathOf(cls, lists, objs[last.obj]) = <<Upper(op.key)>>
    /\ op.name = "CallMethod" =>
          Outcome(calls, last) =
              Executor(cls, visa, spec, objs[op.obj].name, op.kw, op.envs)

\* C7 restricted to klab/instrument.py, where it holds
C7_HoldsForSCPIInstrument == cls = "SCPIInstrument" => C7_Dispatch

\* C8: a statically declared name resolves to the static member, also when it
\* is a key of the loaded methods mapping, and calling it runs the native body.
C8_StaticPrecedence ==
    /\ (op.name = "GetAttr" /\ op.key \in StaticNames(cls)) =>
          /\ last = ObjVal(Len(objs))
          /\ objs[last.obj] = Bound(op.key)
    /\ op.name = "CallStatic" =>
          /\ objs[op.obj].name = N_reset
          /\ Len(calls) = 1 /\ calls[1].op = "write" /\ Str(calls[1].cmd) = "*RST"

\* reset accessed while the loaded specification has a method named reset
C8_Witness ==
    /\ op.name = "GetAttr" /\ op.key = N_reset
    /\ InSpec(spec, N_reset)
    /\ objs[last.obj].type = "static"

\* C9: every access resolves by the specification loaded at that moment, and
\* a method callable executes the sequence of the specification current when
\* it is called (stated for sequences of plain templates): the commands issued
\* are the formatted templates of that sequence, and a name no longer in the
\* specification fails without issuing anything.
C9_LazyResolution ==
    /\ (op.name = "GetAttr" /\ op.key \notin StaticNames(cls)) =>
          (objs[last.obj].type = "caller" <=> InSpec(spec, op.key))
    /\ op.name = "CallMethod" =>
          LET o == objs[op.obj]
          IN  IF ~InSpec(spec, o.name)
              THEN calls = <<>> /\ last = Raise("AttributeError")
              ELSE LET seq == spec.methods[o.name].commands
                   IN  /\ Len(calls) <= Len(seq)
                       /\ \A k \in 1..Len(calls) :
                             /\ Format(seq[k].cmd, op.kw).ok
                             /\ calls[k].cmd = Format(seq[k].cmd, op.kw).text
                       /\ Len(calls) < Len(seq) => IsRaise(last)

\* a callable obtained under one specification and called after a reload
\* that changed the sequence of its name
C9_Witness ==
    /\ op.name = "CallMethod"
    /\ InSpec(spec, objs[op.obj].name)
    /\ InSpec(objs[op.obj].seen, objs[op.obj].name)
    /\ objs[op.obj].seen.methods[objs[op.obj].name] # spec.methods[objs[op.obj].name]
    /\ calls # <<>>

\* every entry of a sequence is a write template
WriteOnly(seq) == \A k \in 1..Len(seq) : seq[k].form = "str" /\ CmdType(seq[k]) = "write"

\* C10: the method whose sequence is the single template 'BAR:BAZ {x}', run
\* with x=3, issues exactly one write of 'BAR:BAZ 3' and no query and returns
\* an empty list; a sequence of write templates returns an empty list.
C10_PureWrite ==
    (op.name = "CallMethod" /\ InSpec(spec, objs[op.obj].name)) =>
        LET seq == spec.methods[objs[op.obj].name].commands
        IN  /\ (seq = <<StrItem(T_BarBaz_x)>> /\ op.kw = (P_x :> Num(T_3))) =>
                  /\ Len(calls) = 1 /\ calls[1].op = "write"
                  /\ Str(calls[1].cmd) = "BAR:BAZ 3"
            /\ WriteOnly(seq) => (last = ListVal(<<>>) \/ IsRaise(last))

\* C10 restricted to klab/instruments/scpi_instrument.py, where it holds
C10_HoldsForScpiInstrument == cls = "ScpiInstrument" => C10_PureWrite

\* foo(x=3), a sequence of two write templates, has returned the empty list on
\* klab/instruments/scpi_instrument.py
C10_TwoWritesReached ==
    /\ cls = "ScpiInstrument" /\ op.name = "CallMethod"
    /\ Len(calls) = 2 /\ Str(calls[1].cmd) = "A:B 3" /\ Str(calls[2].cmd) = "BAR:BAZ 3"
    /\ last = ListVal(<<>>)

\* foo(x=3) on klab/instruments/scpi_instrument.py has returned the empty list
C10_ExampleReached ==
    /\ cls = "ScpiInstrument" /\ op.name = "CallMethod"
    /\ op.kw = (P_x :> Num(T_3))
    /\ Len(calls) = 1 /\ Str(calls[1].cmd) = "BAR:BAZ 3"
    /\ last = ListVal(<<>>)

----------------------------------------------------------------------------
(* Declarative executor: properties checked under SpecExec *)

\* the call just made was _execute_yaml_method(op.key, op.kw) of a method of
\* the loaded specification
RanMethod == op.name = "ExecuteDirect" /\ InSpec(spec, op.key)

\* the command sequence of the method just run
RanSeq == spec.methods[op.key].commands

\* the operations of the run that are writes, and that are queries
Writes == SelectSeq(calls, LAMBDA c : c.op = "write")
Queries == SelectSeq(calls, LAMBDA c : c.op = "query")

\* C11: one run of a method whose single template is the query form
\* 'BAR:BAZ? ' calls query exactly once and write never, and the list it
\* returns has exactly one element, the value that query returned.
C11_SingleQuery ==
    (RanMethod /\ RanSeq = <<StrItem(T_BarBazQ)>>) =>
        /\ Len(Queries) = 1 /\ Writes = <<>>
        /\ ~IsRaise(last) =>
              last = ListVal(<<InstrQuery(cls, visa, op.envs[1])>>)

\* C11 on a connected instrument, where it holds
C11_HoldsWhenConnected == visa => C11_SingleQuery

\* the query method has been run on a connected instrument and has returned
\* the response in a one-element list
C11_ConnectedReached ==
    /\ RanMethod /\ RanSeq = <<StrItem(T_BarBazQ)>> /\ visa
    /\ Len(calls) = 1 /\ Str(calls[1].cmd) = "BAR:BAZ? "
    /\ last = ListVal(<<StrVal(<<"r", "1">>)>>)

\* the first whitespace-delimited token of a text
FirstWord(t) ==
    LET u == LStrip(t)
        n == PrefixLen(u, {u[k] : k \in 1..Len(u)} \ {" ", "\t", "\n"})
    IN  SubSeq(u, 1, n)

\* the kind the design gives a template: the explicit tag, else inferred
DesignKind(item) ==
    IF item.type # "" THEN item.type
    ELSE IF EndsWith(item.cmd, "?") \/ EndsWith(FirstWord(item.cmd), "?")
    THEN "query" ELSE "write"

\* steps 1..k of the method just run were substituted without error and
\* are not nested calls, so that the k-th operation is the dispatch of step k
PlainUpTo(k) ==
    /\ k <= Len(RanSeq)
    /\ \A j \in 1..k :
          LET f == Format(RanSeq[j].cmd, op.kw)
          IN  f.ok /\ ~(Contains(f.text, "(") /\ Contains(f.text, ")"))

\* C12: every template, plain string or {type, cmd} pair, is dispatched with
\* the kind of its explicit tag when it has one, and otherwise with the kind
\* inferred from its text: query when the text ends in '?' or its first
\* whitespace-delimited token does, write in every other case.
C12_KindInference ==
    RanMethod =>
        \A k \in 1..Len(calls) : PlainUpTo(k) => calls[k].op = DesignKind(RanSeq[k])

\* C12 for plain strings and for pairs that carry a type tag, where it holds
C12_HoldsForStringsAndTagged ==
    RanMethod =>
        \A k \in 1..Len(calls) :
            (PlainUpTo(k) /\ (RanSeq[k].form = "str" \/ RanSeq[k].type # "")) =>
                calls[k].op = DesignKind(RanSeq[k])

\* a sequence with an inferred query, a tagged query and a tagged write whose
\* text ends in '?' has been dispatched up to its untagged pair
C12_AllFormsReached ==
    /\ RanMethod /\ RanSeq = DocKinds.methods[N_foo].commands
    /\ Len(calls) = 4
    /\ calls[1].op = "query" /\ calls[2].op = "query" /\ calls[3].op = "write"
    /\ Str(calls[4].cmd) = "BAR:BAZ?"

\* the names of the placeholders {name} of a template
Placeholders(t) ==
    { SubSeq(t, i + 1, j - 1) :
        <<i, j>> \in { <<a, b>> \in (1..Len(t)) \X (1..Len(t)) :
                          /\ a < b /\ t[a] = "{" /\ t[b] = "}"
                          /\ \A m \in (a + 1)..(b - 1) : t[m] \notin {"{", "}"} } }

\* step k has a placeholder that no keyword argument of the call matches
MissingAt(k) == \E ph \in Placeholders(RanSeq[k].cmd) : ph \notin DOMAIN op.kw

\* C13: when step k is the first step with a placeholder that no keyword
\* argument matches, the operations issued are the substituted steps 1..k-1
\* in order and nothing of step k or of a later step; the run that reaches
\* step k ends with KeyError (MissingParameter) there. A run stopped earlier
\* by a failed query of steps 1..k-1 has issued a prefix of those steps.
C13_MissingParameter ==
    RanMethod =>
        \A k \in 1..Len(RanSeq) :
            (PlainUpTo(k - 1) /\ MissingAt(k)) =>
                /\ Len(calls) <= k - 1
                /\ \A j \in 1..Len(calls) :
                      calls[j].cmd = Format(RanSeq[j].cmd, op.kw).text
                /\ \/ last = Raise("KeyError") /\ Len(calls) = k - 1
                   \/ /\ last = Raise("ConnectionError")
                      /\ calls # <<>> /\ calls[Len(calls)].op = "query"

\* the run of ["A:B {x}", "BAR:BAZ? ", "C {y}", "A:B {x}"] with x=3 and no y
\* has stopped at the third step after a write and a query
C13_Witness ==
    /\ RanMethod /\ RanSeq = DocMissing.methods[N_foo].commands
    /\ op.kw = (P_x :> Num(T_3))
    /\ Len(calls) = 2 /\ Str(calls[1].cmd) = "A:B 3" /\ Str(calls[2].cmd) = "BAR:BAZ? "
    /\ last = Raise("KeyError")

P_level == <<"l", "e", "v", "e", "l">>

\* the value the design passes for a value text of the nested call: a number
\* for a numeric text, an integral float collapsed to the integer, else the
\* text without its surrounding quotes
DesignValue(text) ==
    CASE text = T_2 -> Num(T_2)
      [] text = T_2_0 -> Num(T_2)
      [] text = T_2_5 -> Num(T_2_5)
      [] text = T_Qabc -> PlainStr(T_abc)

\* C14: the template 'configure(level={lvl})' run with a value for lvl invokes
\* the method configure exactly once, with the single keyword level holding
\* the number (integer 2 for lvl=2 and for lvl=2.0) or the unquoted string,
\* and the call text itself is never sent: the only operation issued is the
\* write of configure's own template.
C14_NestedCall ==
    (RanMethod /\ RanSeq = <<StrItem(T_Configure_lvl)>> /\ P_lvl \in DOMAIN op.kw
        /\ InSpec(spec, N_configure)) =>
        LET value == DesignValue(op.kw[P_lvl].text)
        IN  /\ nested = <<Invoke(N_configure, P_level :> value)>>
            /\ \A k \in 1..Len(calls) :
                  calls[k].cmd # Format(T_Configure_lvl, op.kw).text
            /\ calls = <<Call("write", <<"L", "E", "V", " ">> \o value.text)>>

\* 'configure(level={lvl})' has been run with lvl=2.0 and has invoked
\* configure(level=2) with the integer
C14_Witness ==
    /\ RanMethod /\ RanSeq = <<StrItem(T_Configure_lvl)>>
    /\ op.kw = (P_lvl :> Num(T_2_0))
    /\ nested = <<Invoke(N_configure, P_level :> Num(T_2))>>
    /\ Len(calls) = 1 /\ Str(calls[1].cmd) = "LEV 2"

\* the example of the design: lvl=2 invokes configure(level=2)
C14_ExampleReached ==
    /\ RanMethod /\ op.kw = (P_lvl :> Num(T_2))
    /\ nested = <<Invoke(N_configure, P_level :> Num(T_2))>>

\* lvl='abc' in quotes invokes configure with the unquoted string
C14_StringReached ==
    /\ RanMethod /\ op.kw = (P_lvl :> PlainStr(T_Qabc))
    /\ nested = <<Invoke(N_configure, P_level :> PlainStr(T_abc))>>
    /\ Len(calls) = 1 /\ Str(calls[1].cmd) = "LEV abc"

\* the call text of a step: its substituted text when that is a nested call
\* of the form name(...) to a name that is neither native nor in the specification
UnknownTarget(item) ==
    LET f == Format(item.cmd, op.kw)
    IN  /\ f.ok /\ Contains(f.text, "(") /\ Contains(f.text, ")")
        /\ MatchCall(f.text).ok
        /\ MatchCall(f.text).name \notin StaticNames(cls)
        /\ ~InSpec(spec, MatchCall(f.text).name)

\* C15: a declarative call of a name absent from the specification fails with
\* AttributeError (SpecMethodNotFound) and issues nothing, both for a direct
\* _execute_yaml_method and for a nested call in the first template of a
\* sequence; the nested name is never sent as a proxy write or query.
C15_SpecMethodNotFound ==
    /\ (op.name = "ExecuteDirect" /\ ~InSpec(spec, op.key)) =>
          (last = Raise("AttributeError") /\ calls = <<>>)
    /\ (RanMethod /\ UnknownTarget(RanSeq[1])) =>
          (last = Raise("AttributeError") /\ calls = <<>>)

\* C15 for direct calls, where it holds
C15_HoldsForDirectCalls ==
    (op.name = "ExecuteDirect" /\ ~InSpec(spec, op.key)) =>
        (last = Raise("AttributeError") /\ calls = <<>>)

\* the direct call of the unknown name bar has failed
C15_DirectReached ==
    /\ op.name = "ExecuteDirect" /\ op.key = N_bar
    /\ last = Raise("AttributeError") /\ calls = <<>>

\* the template 'bar()' has been sent as the proxy query 'bar?'
C15_ProxyQueryReached ==
    /\ RanMethod /\ UnknownTarget(RanSeq[1])
    /\ calls # <<>> /\ calls[1].op = "query" /\ Str(calls[1].cmd) = "bar?"

\* the template 'bar(level=2)' has failed with TypeError
C15_TypeErrorReached ==
    /\ RanMethod /\ UnknownTarget(RanSeq[1])
    /\ last = Raise("TypeError") /\ calls = <<>>

\* a text with both parentheses that is not of the form name(key=value, ...)
NotACall(text) ==
    /\ Contains(text, "(") /\ Contains(text, ")")
    /\ \/ ~MatchCall(text).ok
       \/ /\ Strip(MatchCall(text).args) # <<>>
          /\ \E pair \in {Split(MatchCall(text).args, ",")[n] :
                              n \in 1..Len(Split(MatchCall(text).args, ","))} :
                ~Contains(pair, "=")

\* C16: when step k is the first step whose substituted text has both
\* parentheses, and that text is not of the form name(key=value, ...), the
\* run that reaches step k ends with ValueError (InvalidNestedCallSyntax):
\* the text is never sent, as a write or as a query, and no later step is
\* dispatched, so the operations issued are those of steps 1..k-1.
C16_InvalidNestedCall ==
    RanMethod =>
        \A k \in 1..Len(RanSeq) :
            LET f == Format(RanSeq[k].cmd, op.kw)
            IN  (PlainUpTo(k - 1) /\ f.ok /\ NotACall(f.text)) =>
                    /\ Len(calls) <= k - 1
                    /\ \A j \in 1..Len(calls) :
                          calls[j].cmd = Format(RanSeq[j].cmd, op.kw).text
                    /\ nested = <<>>
                    /\ \/ last = Raise("ValueError") /\ Len(calls) = k - 1
                       \/ /\ last = Raise("ConnectionError")
                          /\ calls # <<>> /\ calls[Len(calls)].op = "query"

\* 'MEAS? (@1)', second step after the write 'A:B 3', has been refused
C16_Witness ==
    /\ RanMethod /\ RanSeq = DocBadCall.methods[N_foo].commands
    /\ Len(calls) = 1 /\ Str(calls[1].cmd) = "A:B 3"
    /\ last = Raise("ValueError")

\* 'configure(level)', a call shape with an argument without '=', has been refused
C16_NoEqualsReached ==
    /\ RanMethod /\ RanSeq = DocBadCall.methods[N_configure].commands
    /\ calls = <<>> /\ nested = <<>>
    /\ last = Raise("ValueError")

----------------------------------------------------------------------------
(* Construction and loading: properties checked under SpecLoad *)

\* the constructor has just run with the yaml_file argument op.key
Constructed == op.name = "Construct"

\* the specification the constructed instrument works with: the document
\* read, or the empty mapping when none was read
LoadedDoc == IF loaded = "" THEN DocNoMethods ELSE files[loaded]

\* the @yaml_method names that are no key of the loaded methods mapping
MissingNames == {n \in required : ~InSpec(LoadedDoc, n)}

\* the names listed by the error the constructor raised
ListedNames == {last.items[k] : k \in 1..Len(last.items)}

\* C17: construction of klab/instruments/scpi_instrument.py succeeds only if
\* every @yaml_method name is a key of the loaded methods mapping; when a
\* name is missing, with no file asked for or a file read, it fails with
\* NotImplementedError (MissingSpecImplementation) listing exactly the
\* missing names.
C17_ConstructionValidation ==
    (Constructed /\ cls = "ScpiInstrument") =>
        /\ alive => MissingNames = {}
        /\ (MissingNames # {} /\ (op.key = "" \/ loaded # "")) =>
              /\ last.kind = "raise" /\ last.exc = "NotImplementedError"
              /\ ListedNames = MissingNames

\* C17 when a file holding a mapping has been read, where it holds
C17_HoldsWhenMappingRead ==
    (Constructed /\ cls = "ScpiInstrument" /\ loaded # "" /\ LoadedDoc.kind = "dict") =>
        /\ alive => MissingNames = {}
        /\ MissingNames # {} =>
              /\ last.kind = "raise" /\ last.exc = "NotImplementedError"
              /\ ListedNames = MissingNames

\* a class with three @yaml_method names, given a specification with two of
\* them, has failed naming exactly the third
C17_ExampleReached ==
    /\ Constructed /\ cls = "ScpiInstrument" /\ LoadedDoc = DocSMU2
    /\ ~alive /\ last = RaiseWith("NotImplementedError", <<N_enable_source>>)

\* the same class has been constructed without a specification file
C17_NoFileReached ==
    /\ Constructed /\ cls = "ScpiInstrument" /\ op.key = ""
    /\ Cardinality(required) = 3 /\ alive

\* the candidate locations of the design, in its order, for a relative path;
\* an absolute path has the one location it names
DesignCandidates(yaml_file) ==
    IF IsAbs(yaml_file) THEN <<"given">> ELSE <<"given", "driver", "shared">>

\* C18: a constructor given a specification file reads the first that exists
\* of: the path as given, the path relative to the driver's source location,
\* the path under the shared specification directory.
C18_SearchOrder ==
    (Constructed /\ op.key # "") =>
        loaded = FirstExisting(files, DesignCandidates(op.key))

\* C18 for an absolute path, where the candidates coincide and it holds
C18_HoldsForAbsolutePath ==
    (Constructed /\ op.key # "" /\ IsAbs(op.key)) =>
        loaded = FirstExisting(files, DesignCandidates(op.key))

\* with files both at the path as given and next to scpi_instrument.py,
\* ScpiInstrument has read the latter
C18_ModuleFirstReached ==
    /\ Constructed /\ cls = "ScpiInstrument" /\ op.key = "k.yml"
    /\ files["given"].kind # "absent" /\ files["module"].kind # "absent"
    /\ loaded = "module"

\* with a file at the path as given only, SCPIInstrument has read nothing
C18_LegacyReached ==
    /\ Constructed /\ cls = "SCPIInstrument" /\ op.key = "k.yml"
    /\ files["given"].kind # "absent" /\ files["shared"].kind = "absent"
    /\ loaded = "" /\ alive

\* C19: when the file asked for exists at no location, the constructor fails
\* with FileNotFoundError (SpecFileNotFound) and returns no instrument.
C19_SpecFileNotFound ==
    (Constructed /\ op.key # "" /\ files = NoFiles) =>
        (last = Raise("FileNotFoundError") /\ ~alive)

\* C19 on klab/instruments/scpi_instrument.py, where it holds
C19_HoldsForScpiInstrument == cls = "ScpiInstrument" => C19_SpecFileNotFound

\* ScpiInstrument has failed on a file that exists nowhere
C19_FatalReached ==
    /\ Constructed /\ cls = "ScpiInstrument" /\ op.key # "" /\ files = NoFiles
    /\ last = Raise("FileNotFoundError") /\ ~alive

\* SCPIInstrument has returned an instrument with an empty specification
C19_WarningReached ==
    /\ Constructed /\ cls = "SCPIInstrument" /\ op.key # "" /\ files = NoFiles
    /\ alive /\ spec = DocNoMethods

\* the instrument of klab/instruments/scpi_instrument.py was built from a
\* file whose document has no 'methods' key, by a class without @yaml_method
NoMethodsLoaded ==
    /\ cls = "ScpiInstrument" /\ required = {}
    /\ loaded # "" /\ ~files[loaded].hasMethods

\* C20: a document without a 'methods' key, the empty document included, is
\* no error: the construction succeeds, every name that is not a native
\* member then resolves to a command proxy, and a direct declarative call
\* of any name fails with AttributeError (SpecMethodNotFound), sending nothing.
C20_NoMethodsKey ==
    NoMethodsLoaded =>
        /\ Constructed => (alive /\ ~IsRaise(last))
        /\ (op.name = "GetAttr" /\ op.key \notin StaticNames(cls)) =>
              (last.kind = "obj" /\ objs[last.obj].type = "proxy")
        /\ op.name = "ExecuteDirect" =>
              (last = Raise("AttributeError") /\ calls = <<>>)

\* C20 for a document that is a mapping without the key, where it holds
C20_HoldsForMappings ==
    (loaded # "" => files[loaded].kind = "dict") => C20_NoMethodsKey

\* a proxy has been obtained on an instrument built from a mapping without
\* the 'methods' key
C20_ProxyReached ==
    /\ NoMethodsLoaded /\ op.name = "GetAttr" /\ op.key = N_foo
    /\ objs[last.obj].type = "proxy"

\* a direct declarative call has been refused on such an instrument
C20_RefusedReached ==
    /\ NoMethodsLoaded /\ op.name = "ExecuteDirect"
    /\ last = Raise("AttributeError")

\* the construction from an empty document has failed with TypeError
C20_EmptyDocumentReached ==
    /\ NoMethodsLoaded /\ Constructed /\ files[loaded] = DocNone
    /\ ~alive /\ last = Raise("TypeError")

----------------------------------------------------------------------------
(* SpecConn: connect, disconnect and the traffic to the backend *)

\* connect attempts of one scenario
MaxConnects == 2

\* the retries argument of ScpiInstrument.query ranges over 0..MaxRetries
\* and the default
MaxRetries == 2

\* values of KLAB_DEBUG_STREAM: unset, 'True', '0'
EnvValues == {<<>>, <<"T", "r", "u", "e">>, <<"0">>}

\* transport behaviours of the successive attempts of one query
AttemptSeqs ==
    LET good == [ok |-> TRUE, resp |-> <<"r", "1", "\n">>]
        bad == [ok |-> FALSE, resp |-> <<>>]
    IN  {<<good>>, <<bad>>, <<bad, good>>}

\* the instrument's answers to *IDN? and to *STB?, or a transport failure
IdnAnswer == [ok |-> TRUE, resp |-> <<"K", ",", "2", "4", ",", "7", ",", "1", ".", "0", "\n">>]
StbAnswer == [ok |-> TRUE, resp |-> <<"1", "6", "\n">>]
IdnOutcomes == {IdnAnswer, [ok |-> FALSE, resp |-> <<>>]}
StbOutcomes == {StbAnswer, [ok |-> FALSE, resp |-> <<>>]}

\* the instrument that differs from i only in the toggle
Other(i) == [i EXCEPT !.debug = ~@]

\* what an operation does on the other instrument, and the state it leaves
Twin(d, i, b, lib) ==
    [calls |-> d.calls, ret |-> d.ret, trace |-> d.trace,
     inst |-> i, backend |-> b, lib |-> lib]

\* instrument.connect()
Connect(how) ==
    /\ Len(pyvisa.resources) < MaxConnects
    /\ backend.kind = "XimcBackend" /\ how = "unavailable" => pyvisa.resources = <<>>
    /\ op' = Op("Connect", 0, <<>>, <<how>>, <<>>, <<>>)
    /\ LET r == KlabConnect(inst, backend, pyvisa, how)
           t == KlabConnect(Other(inst), backend, pyvisa, how)
       IN  /\ inst' = r.inst
           /\ backend' = r.backend
           /\ pyvisa' = r.lib
           /\ visa' = (r.inst.handle # 0)
           /\ twin' = Twin(Done(<<>>, None, <<>>), t.inst, t.backend, t.lib)
    /\ calls' = <<>>
    /\ last' = None
    /\ trace' = <<>>
    /\ UNCHANGED <<cls, spec, lists, objs, nested, files, required, alive, loaded, environ>>

\* instrument.disconnect(); close() raises at most once on a resource
Disconnect(closeOk) ==
    /\ backend.handle # 0 => closeOk \/ ~pyvisa.resources[backend.handle].raised
    /\ op' = Op("Disconnect", 0, <<>>, <<closeOk>>, <<>>, <<>>)
    /\ LET r == KlabDisconnect(inst, backend, pyvisa, closeOk)
           t == KlabDisconnect(Other(inst), backend, pyvisa, closeOk)
       IN  /\ inst' = r.inst
           /\ backend' = r.backend
           /\ pyvisa' = r.lib
           /\ visa' = (r.inst.handle # 0)
           /\ twin' = Twin(Done(<<>>, None, <<>>), t.inst, t.backend, t.lib)
    /\ calls' = <<>>
    /\ last' = None
    /\ trace' = <<>>
    /\ UNCHANGED <<cls, spec, lists, objs, nested, files, required, alive, loaded, environ>>

\* an operation that changes no field of the instrument or of the backend
Traffic(name, cmd, retries, envs, d, t) ==
    /\ op' = Op(name, 0, cmd, <<retries>>, <<>>, envs)
    /\ calls' = d.calls
    /\ last' = d.ret
    /\ trace' = d.trace
    /\ twin' = Twin(t, Other(inst), backend, pyvisa)
    /\ UNCHANGED <<cls, visa, spec, lists, objs, nested, files, required, alive, loaded,
                   backend, inst, pyvisa, environ>>

\* instrument.write(cmd)
Write(cmd, env) ==
    Traffic("Write", cmd, 0, <<env>>,
            InstWrite(cls, inst, backend, pyvisa, cmd, env),
            InstWrite(cls, Other(inst), backend, pyvisa, cmd, env))

\* instrument.read()
Read(env) ==
    Traffic("Read", <<>>, 0, <<env>>,
            InstRead(cls, inst, backend, pyvisa, env),
            InstRead(cls, Other(inst), backend, pyvisa, env))

\* instrument.query(cmd) and, for ScpiInstrument, instrument.query(cmd, retries)
Query(cmd, retries, envs) ==
    /\ cls = "KlabInstrument" => retries = DefaultRetries /\ Len(envs) = 1
    /\ Traffic("Query", cmd, retries, envs,
               InstQuery(cls, inst, backend, pyvisa, cmd, retries, envs),
               InstQuery(cls, Other(inst), backend, pyvisa, cmd, retries, envs))

\* instrument.wait(seconds)
Wait == Traffic("Wait", <<>>, 0, <<>>, KlabWait(inst), KlabWait(Other(inst)))

\* instrument.get_idn()
GetIdn(env) ==
    /\ cls = "ScpiInstrument"
    /\ Traffic("GetIdn", K_IdnQ, 0, <<env>>,
               GetIdnOf(spec, inst, backend, pyvisa, env),
               GetIdnOf(spec, Other(inst), backend, pyvisa, env))

\* instrument.get_status_byte()
GetStatusByte(env) ==
    /\ cls = "ScpiInstrument"
    /\ Traffic("GetStatusByte", K_StbQ, 0, <<env>>,
               GetStatusByteOf(spec, inst, backend, pyvisa, env),
               GetStatusByteOf(spec, Other(inst), backend, pyvisa, env))

\* instrument.foo(*args): a command proxy made and called at once
ViaProxy(args, env) ==
    /\ cls = "ScpiInstrument"
    /\ LET p == ProxyCall(inst.handle # 0, N_a, args, env)
           q == ProxyCall(Other(inst).handle # 0, N_a, args, env)
       IN  Traffic("ViaProxy", p.calls[1].cmd, DefaultRetries, <<env>>,
                   Deliver(inst, backend, pyvisa, p.calls[1], p.ret, <<env>>),
                   Deliver(Other(inst), backend, pyvisa, q.calls[1], q.ret, <<env>>))

\* instrument.foo(**kw): the declarative method foo of the specification
ViaMethod(kw, envs) ==
    /\ cls = "ScpiInstrument"
    /\ LET r == ExecuteYamlMethod(inst.handle # 0, spec, N_foo, kw, envs, <<>>, 0)
           cs == Commands(r.calls)
       IN  Traffic("ViaMethod", N_foo, DefaultRetries, envs,
                   Done(DeliverAll(inst, backend, pyvisa, cs, 1, envs), r.ret, <<>>),
                   Done(DeliverAll(Other(inst), backend, pyvisa, cs, 1, envs), r.ret, <<>>))

\* os.environ['KLAB_DEBUG_STREAM'] = value, after the instrument was built
SetEnviron(value) ==
    /\ environ' = value
    /\ op' = Op("SetEnviron", 0, value, <<>>, <<>>, <<>>)
    /\ calls' = <<>>
    /\ last' = None
    /\ trace' = <<>>
    /\ twin' = Twin(Done(<<>>, None, <<>>), Other(inst), backend, pyvisa)
    /\ UNCHANGED <<cls, visa, spec, lists, objs, nested, files, required, alive, loaded,
                   backend, inst, pyvisa>>

\* the state after KlabInstrument(name, address, communication_backend,
\* connect=False) or ScpiInstrument(...) with the methods
\* {foo: ["A:B {x}", "BAR:BAZ? "], reset: ["A:B {x}"]}
InitConn ==
    /\ op = Op("init", 0, <<>>, <<>>, <<>>, <<>>)
    /\ cls \in {"KlabInstrument", "ScpiInstrument"}
    /\ visa = FALSE
    /\ spec = DocFooReset
    /\ lists = << <<>> >>
    /\ objs = <<>>
    /\ calls = <<>>
    /\ last = None
    /\ nested = <<>>
    /\ files = NoFiles
    /\ required = {}
    /\ alive = TRUE
    /\ loaded = ""
    /\ backend \in {NewBackend(k) : k \in BackendKinds}
    /\ environ \in EnvValues
    /\ inst = NewInstrument(environ)
    /\ pyvisa = NoResources
    /\ trace = <<>>
    /\ twin = Twin(Done(<<>>, None, <<>>), Other(inst), backend, pyvisa)

NextConn ==
    \/ \E how \in ConnectOutcomes : Connect(how)
    \/ \E closeOk \in BOOLEAN : Disconnect(closeOk)
    \/ \E env \in TransportOutcomes : Write(K_Rst, env)
    \/ \E env \in TransportOutcomes : Read(env)
    \/ \E retries \in (0..MaxRetries) \cup {DefaultRetries}, envs \in AttemptSeqs :
          Query(K_IdnQ, retries, envs)
    \/ \E value \in EnvValues : SetEnviron(value)
    \/ Wait
    \/ \E env \in IdnOutcomes : GetIdn(env)
    \/ \E env \in StbOutcomes : GetStatusByte(env)
    \/ \E args \in {<<>>, <<Num(T_5)>>}, env \in TransportOutcomes : ViaProxy(args, env)
    \/ \E envs \in EnvSeqs : ViaMethod(P_x :> Num(T_3), envs)

SpecConn == InitConn /\ [][NextConn]_vars

----------------------------------------------------------------------------
(* Claims on the connection (SpecConn) *)

\* the most recent operation was one of write, read, query
DidTraffic == op.name \in {"Write", "Read", "Query"}

\* the instrument reports that it is not connected
NotConnected == ~IsConnected(backend, pyvisa)

\* the error kinds that can stand for the design's NotConnected: the name
\* itself and the RuntimeError the VISA backends raise without a handle
NotConnectedKinds == {"NotConnected", "RuntimeError"}

\* C21: on an instrument that is not connected, write, read and query each
\* fail with a NotConnected error (they do not return a value), and no call
\* reaches a resource.
C21_NotConnected ==
    DidTraffic /\ NotConnected =>
        /\ IsRaise(last) /\ last.exc \in NotConnectedKinds
        /\ ToResource(calls) = <<>>

\* C21, the part that holds: a KlabInstrument that is not connected sends
\* nothing to a resource
C21_HoldsNothingSent ==
    DidTraffic /\ NotConnected /\ cls = "KlabInstrument" => ToResource(calls) = <<>>

\* C21: the three operations were run on a never-connected KlabInstrument
C21_NothingSentReached ==
    /\ cls = "KlabInstrument" /\ backend.kind = "VisaBackend"
    /\ op.name = "Query" /\ NotConnected /\ pyvisa.resources = <<>>
    /\ calls = <<Issued("query", K_IdnQ), Sent(0, "query", K_IdnQ)>> /\ last = None

\* C21: a disconnected ScpiInstrument answers a query with None
C21_ScpiNoneReached ==
    /\ cls = "ScpiInstrument" /\ op.name = "Query" /\ inst.handle = 0
    /\ Len(pyvisa.resources) = 1 /\ ~pyvisa.resources[1].open
    /\ calls = <<Issued("query", K_IdnQ)>> /\ last = None

\* the handles of the resources opened so far
Handles == 1..Len(pyvisa.resources)

\* C22: disconnect raises no error, leaves is_connected() false, and no
\* resource has been closed more than once, whatever preceded it (no
\* connect, a failed connect, a successful connect, another disconnect).
C22_DisconnectIdempotent ==
    op.name = "Disconnect" =>
        /\ ~IsRaise(last)
        /\ ~IsConnected(backend, pyvisa)
        /\ \A h \in Handles : pyvisa.resources[h].closes <= 1

\* C22 as long as no close() has raised, where it holds
C22_HoldsWhenCloseSucceeds ==
    (\A h \in Handles : ~pyvisa.resources[h].raised) => C22_DisconnectIdempotent

\* C22 for XimcBackend, whose disconnect drops the handle in a finally clause
C22_HoldsForXimcBackend ==
    backend.kind = "XimcBackend" => C22_DisconnectIdempotent

\* C22: a second disconnect in a row after a successful connect, all closes good
C22_TwiceReached ==
    /\ op.name = "Disconnect" /\ backend.kind = "VisaBackend"
    /\ Len(pyvisa.resources) = 1
    /\ pyvisa.resources[1] = [open |-> FALSE, closes |-> 1, raised |-> FALSE]
    /\ backend.rm = 0 /\ inst.handle = 0

\* C22: disconnect of a never-connected instrument
C22_NeverConnectedReached ==
    op.name = "Disconnect" /\ pyvisa = NoResources /\ ~IsConnected(backend, pyvisa)

\* C22: XimcBackend after a close_device() that raised
C22_XimcRaisedReached ==
    /\ op.name = "Disconnect" /\ backend.kind = "XimcBackend"
    /\ \E h \in Handles : pyvisa.resources[h].raised

\* the attempts the most recent operation made on a resource
Tried == Len(SelectSeq(calls, LAMBDA c : c.at = "resource" /\ c.op = "query"))

\* the attempts, of those a query is allowed, on which the transport answers
GoodAttempts == {k \in 1..op.args[1] : EnvAt(op.envs, k).ok}

\* the query had an open resource to talk to
QueryOnOpenResource ==
    /\ op.name = "Query"
    /\ IF cls = "ScpiInstrument"
       THEN inst.handle # 0 /\ pyvisa.resources[inst.handle].open
       ELSE backend.kind # "XimcBackend" /\ backend.handle # 0
            /\ pyvisa.resources[backend.handle].open

\* C23: a query makes at most `retries` attempts; it returns the stripped
\* response of the first attempt that succeeds, having made no further
\* attempt; when no attempt succeeds it raises ConnectionError and returns
\* no value.
C23_BoundedRetry ==
    QueryOnOpenResource =>
        /\ Tried <= op.args[1]
        /\ GoodAttempts # {} =>
              LET k == CHOOSE i \in GoodAttempts : \A j \in GoodAttempts : i <= j
              IN  Tried = k /\ last = StrVal(Strip(EnvAt(op.envs, k).resp))
        /\ GoodAttempts = {} => IsRaise(last) /\ last.exc = "ConnectionError"

\* C23 for ScpiInstrument.query, where it holds
C23_HoldsForScpiInstrument == cls = "ScpiInstrument" => C23_BoundedRetry

\* C23: the second attempt of ScpiInstrument.query succeeded
C23_RetriedReached ==
    /\ cls = "ScpiInstrument" /\ QueryOnOpenResource
    /\ op.args[1] = 2 /\ Len(op.envs) = 2 /\ ~op.envs[1].ok /\ op.envs[2].ok
    /\ Tried = 2 /\ last = StrVal(<<"r", "1">>)

\* C23: ScpiInstrument.query used up its retries
C23_ExhaustedReached ==
    /\ cls = "ScpiInstrument" /\ QueryOnOpenResource
    /\ op.args[1] = 1 /\ Len(op.envs) = 2
    /\ Tried = 1 /\ last = Raise("ConnectionError")

\* C23: ScpiInstrument.query with retries = 0 makes no attempt
C23_NoAttemptReached ==
    /\ cls = "ScpiInstrument" /\ QueryOnOpenResource
    /\ op.args[1] = 0 /\ ToResource(calls) = <<>> /\ last = Raise("ConnectionError")

\* the most recent operation is one that KlabInstrument traces
Traced ==
    \/ op.name \in {"Write", "Read", "Wait"}
    \/ op.name = "Query" /\ cls = "KlabInstrument"

\* C24: the toggle is fixed at construction (no step changes it, whatever
\* happens to the environment variable); every operation makes the same
\* calls with the same arguments, returns the same result and leaves the
\* same state on the instrument built with the other toggle; the toggle
\* decides only whether the operation writes to the debug stream.
C24_ToggleHasNoEffect ==
    [][ /\ inst'.debug = inst.debug
        /\ twin'.calls = calls' /\ twin'.ret = last'
        /\ twin'.inst = Other(inst') /\ twin'.backend = backend' /\ twin'.lib = pyvisa'
        /\ Traced' => ((trace' # <<>>) = inst.debug /\ (twin'.trace # <<>>) = ~inst.debug)
      ]_vars

\* C24: a traced query on an instrument built with the toggle on, after the
\* environment variable was set to '0'; the other instrument prints nothing
C24_Witness ==
    /\ op.name = "Query" /\ cls = "KlabInstrument" /\ backend.kind = "VisaBackend"
    /\ inst.debug /\ environ = <<"0">>
    /\ trace = <<"QUERY", "RECV">> /\ twin.trace = <<>>
    /\ last = StrVal(<<"r", "1">>) /\ twin.ret = last /\ twin.calls = calls

\* the most recent operation ran on an instrument whose backend and legacy
\* handle both hold an open resource, and the transport answered
ConnectedAndAnswered ==
    /\ IsConnected(backend, pyvisa) /\ inst.handle # 0
    /\ pyvisa.resources[inst.handle].open
    /\ op.envs[1].ok

\* the queries among the calls, and the writes
QueriesSent == SelectSeq(calls, LAMBDA c : c.op = "query")
WritesSent == SelectSeq(calls, LAMBDA c : c.op = "write")

\* C25: on a connected instrument get_idn sends one query '*IDN?' and no
\* write, and returns the first four comma-separated fields of the stripped
\* response under the keys vendor, model, serial, firmware; get_status_byte
\* sends one query '*STB?' and returns the response as an integer.
C25_IdnAndStatusByte ==
    /\ op.name = "GetIdn" /\ ConnectedAndAnswered =>
          /\ WritesSent = <<>>
          /\ Len(ToResource(QueriesSent)) = 1
          /\ \A k \in 1..Len(QueriesSent) : QueriesSent[k].cmd = K_IdnQ
          /\ last = DictVal(IdnKeys, Split(Strip(op.envs[1].resp), ","))
    /\ op.name = "GetStatusByte" /\ ConnectedAndAnswered =>
          /\ WritesSent = <<>>
          /\ Len(ToResource(QueriesSent)) = 1
          /\ \A k \in 1..Len(QueriesSent) : QueriesSent[k].cmd = K_StbQ
          /\ last = IntVal(<<"1", "6">>)

----------------------------------------------------------------------------
(* Claims on the result list and on termination (SpecExec) *)

\* the responses that are collected: not null and not an empty list
Kept(rs) == SelectSeq(rs, LAMBDA r : r # None /\ r # ListVal(<<>>))

\* the result of the k-th step of a sequence without nested calls: what the
\* query returned for a step dispatched as a query, nothing for a write
StepResult(k) ==
    IF calls[k].op = "query" THEN InstrQuery(cls, visa, EnvAt(op.envs, k)) ELSE None

C26_PlainReached ==
    /\ RanMethod /\ PlainUpTo(Len(RanSeq)) /\ Len(Writes) >= 1 /\ Len(Queries) >= 1
    /\ ~IsRaise(last) /\ Len(last.items) = Len(Queries)

\* C26: queries on a disconnected instrument returned null and were dropped
C26_DroppedReached ==
    /\ RanMethod /\ ~visa /\ Len(Queries) >= 1 /\ last = ListVal(<<>>)

\* the longest command sequence of the loaded specification
Longest ==
    LET lens == {Len(spec.methods[n].commands) : n \in DOMAIN spec.methods}
    IN  CHOOSE l \in lens : \A m \in lens : m <= l

RECURSIVE TreeSize(_, _)
\* the steps of a call tree of depth d in which every step of a sequence of
\* l steps is a nested call
TreeSize(l, d) == IF d = 0 THEN l ELSE l + l * TreeSize(l, d - 1)

C29_MutualReached ==
    /\ RanMethod /\ spec = DocRecursive /\ op.key = N_bar
    /\ nested[1].cmd = N_configure /\ nested[2].cmd = N_bar
    /\ last = Raise("RecursionError")

\* the most recent operation was a write or a query of an ScpiInstrument:
\* direct, through a command proxy, or through a declarative method (a
\* direct query with retries = 0 is allowed no attempt and is left out)
ScpiTraffic ==
    /\ cls = "ScpiInstrument"
    /\ op.name \in {"Write", "Query", "ViaProxy", "ViaMethod"}
    /\ op.args[1] > 0 \/ op.name = "Write"

\* C27: every write and query the instrument issues is next handed to the
\* same operation of its communication backend with the same command, and
\* a direct query on a connected backend other than the default one returns
\* what that backend's query returns.
C27_OneTransport ==
    ScpiTraffic =>
        /\ \A k \in 1..Len(calls) :
              calls[k].at = "instrument" =>
                  /\ k < Len(calls)
                  /\ calls[k + 1] = Sent(0, calls[k].op, calls[k].cmd)
        /\ (op.name = "Query" /\ backend.kind # "VisaBackend"
                /\ IsConnected(backend, pyvisa) /\ op.envs[1].ok) =>
              last = BackendQuery(backend, pyvisa, op.key, op.envs[1]).ret

\* C27 for writes, where it holds
C27_HoldsForWrites ==
    ScpiTraffic =>
        \A k \in 1..Len(calls) :
            (calls[k].at = "instrument" /\ calls[k].op = "write") =>
                /\ k < Len(calls)
                /\ calls[k + 1] = Sent(0, calls[k].op, calls[k].cmd)

\* C27: a write made through a proxy and one made by a declarative method
\* reached the backend
C27_ProxyWriteReached ==
    /\ ScpiTraffic /\ op.name = "ViaProxy" /\ IsConnected(backend, pyvisa)
    /\ calls = <<Issued("write", <<"a", " ", "5">>), Sent(0, "write", <<"a", " ", "5">>),
                 Sent(backend.handle, "write", <<"a", " ", "5">>)>>

C27_MethodWriteReached ==
    /\ ScpiTraffic /\ op.name = "ViaMethod" /\ backend.kind = "XimcBackend"
    /\ IsConnected(backend, pyvisa)
    /\ calls = <<Issued("write", <<"A", ":", "B", " ", "3">>),
                 Sent(0, "write", <<"A", ":", "B", " ", "3">>),
                 Issued("query", T_BarBazQ)>>

\* C27: a query on a connected comm.VisaBackend never reached the backend
\* and returned None
C27_BypassedReached ==
    /\ ScpiTraffic /\ op.name = "Query" /\ backend.kind = "comm.VisaBackend"
    /\ IsConnected(backend, pyvisa) /\ op.envs[1].ok
    /\ calls = <<Issued("query", K_IdnQ)>> /\ last = None

\* the backend holds an open resource
BackendHolds == backend.handle # 0 /\ pyvisa.resources[backend.handle].open

\* C28: with the default VISA backend the instrument's _visa_instrument is
\* set exactly when the backend holds an open resource, and it is that
\* resource, after every sequence of connect and disconnect calls.
C28_LegacyHandle ==
    backend.kind = "VisaBackend" =>
        /\ inst.handle # 0 <=> BackendHolds
        /\ inst.handle # 0 => inst.handle = backend.handle

\* C28 after a connect that succeeded and after every disconnect, where it holds
C28_HoldsAfterSuccessAndDisconnect ==
    (\/ op.name = "Connect" /\ op.args[1] = "ok"
     \/ op.name = "Disconnect") => C28_LegacyHandle

\* C28: a second successful connect has replaced both handles
C28_ReconnectedReached ==
    /\ backend.kind = "VisaBackend" /\ op.name = "Connect" /\ op.args[1] = "ok"
    /\ inst.handle = 2 /\ backend.handle = 2

\* C28: after a failed reconnect an ScpiInstrument still queries the resource
\* the backend has dropped
C28_StaleQueryReached ==
    /\ backend.kind = "VisaBackend" /\ cls = "ScpiInstrument"
    /\ backend.handle = 0 /\ inst.handle = 1
    /\ op.name = "Query" /\ last = StrVal(<<"r", "1">>)

----------------------------------------------------------------------------
(* Claim on the connection of a failed construction (SpecLoad) *)

\* the constructor just raised for a problem of the specification
SpecificationProblem ==
    /\ Constructed /\ IsRaise(last)
    /\ last.exc \in {"FileNotFoundError", "NotImplementedError"}

\* C30: when the constructor raises for a specification problem (file not
\* found, required method missing), the instrument is not connected at the
\* moment the error reaches the caller.
C30_NoConnectionLeft == SpecificationProblem => ~visa

\* C30 when the connection attempt of the constructor failed, where it holds
C30_HoldsWhenConnectFailed ==
    (Constructed /\ op.args = <<FALSE>>) => C30_NoConnectionLeft

\* C30: the constructor raised for a missing file after a failed connection
C30_NeverOpenedReached ==
    /\ SpecificationProblem /\ op.args = <<FALSE>> /\ ~visa
    /\ last.exc = "FileNotFoundError"

\* C30: the object of a failed constructor was collected and disconnected
C30_CollectedReached == op.name = "Finalize" /\ ~visa /\ ~alive

====
